---- MODULE Spec2Model ----
(***************************************************************************)
(* Orchestration core of mqi_communicator: the cases / gpu_resources       *)
(* tables of DatabaseManager, the supervisor loop of main.py with its      *)
(* phases (main_loop_logic.py), the worker threads of                      *)
(* ParallelCaseProcessor, and the remote Pueue queue they talk to.         *)
(*                                                                         *)
(* Every SQL statement is one atomic step (sqlite serialises statements    *)
(* on the single shared connection).  What is NOT atomic is a method that  *)
(* issues several statements without holding DatabaseManager._lock: its    *)
(* statements interleave with those of other threads, and the state of the *)
(* shared self.cursor object (rowcount, pending result rows) and of the    *)
(* shared connection (the transaction that is open on it) is visible to    *)
(* all of them.                                                            *)
(*                                                                         *)
(* Smaller specifications stand beside the orchestration core: the        *)
(* WorkflowEngine with its configured steps (SpecWf), the CaseScanner      *)
(* registering directories (SpecScan), the workflow states of              *)
(* mqi_communicator_new (SpecFlow), one call of RetryPolicy.execute        *)
(* (SpecRp), one call of get_optimal_gpu_assignment (SpecGm), and the      *)
(* QueryCache under concurrent readers and a writer (SpecQc).              *)
(*                                                                         *)
(* Calls of the logger are taken to return normally everywhere.  As the    *)
(* code stands this is an idealisation for workflow_engine.py,             *)
(* remote_executor.py and local_executor.py: their calls pass              *)
(* context=LogContext(...).to_dict(), a dict, to StructuredLogger, whose   *)
(* _build_context reads attributes of a LogContext and raises              *)
(* AttributeError.                                                         *)
(***************************************************************************)
EXTENDS Integers, Sequences, FiniteSets, TLC

----------------------------------------------------------------------------
(* Bounds of the model *)

NumCases == 2           \* case ids 1..NumCases
MaxTasks == 2           \* remote task ids 0..MaxTasks-1 (Pueue numbers from 0)
MaxTicks == 2           \* iterations of the supervisor loop, over all runs
MaxCrashes == 1         \* kills / restarts of the process

(* Program constants *)

NoCase == 0             \* SQL NULL in an INTEGER case-id column
NoTask == -1            \* SQL NULL in cases.pueue_task_id
batch_size == 10

NoGroup == "none"       \* Python None where a group name is expected

Cases == 1..NumCases
TaskIds == 0..(MaxTasks - 1)
GroupOrder == <<"gpu_a", "gpu_b">>      \* ORDER BY pueue_group
Groups == {GroupOrder[i] : i \in 1..Len(GroupOrder)}

VARIABLES
    cases,      \* table cases: case_id -> row
    gpus,       \* table gpu_resources: pueue_group -> row
    remote,     \* the Pueue daemon on the HPC host: task id -> task
    cursor,     \* DatabaseManager.cursor, one object shared by all threads
    txn,        \* DatabaseManager.conn: the transaction open on the connection
    cfg,        \* which optional components main() managed to build
    sup,        \* position of the main thread in the supervisor loop
    wk,         \* per case: position of the thread running _process_single_case
    active,     \* ParallelCaseProcessor.active_case_ids
    crashes,    \* number of restarts so far
    lockedBy,   \* history: case whose find-and-lock took the row, until released
    ev,         \* history: what the last completed supervisor iteration did
    wf,         \* WorkflowEngine: its configuration and one process_case call
    reg,        \* CaseScanner: the directories, the rows by path, the events
    flow,       \* mqi_communicator_new: one case going through the workflow states
    rp,         \* RetryPolicy: one call of execute
    gm,         \* DynamicGpuManager: what its probes saw and what it returned
    qc          \* QueryCache and the callers of get_case_by_id / update_case_*

vars == <<cases, gpus, remote, cursor, txn, cfg, sup, wk, active, crashes, lockedBy, ev,
          wf, reg, flow, rp, gm, qc>>

(* the components that the supervisor loop and its workers do not touch *)
side == <<wf, reg, flow, rp, gm, qc>>

NoWf == [pc |-> "off"]
NoReg == [pc |-> "off"]
NoFlow == [pc |-> "off"]
NoRp == [pc |-> "off"]
NoGm == [pc |-> "off"]
NoQc == [pc |-> "off"]

(* the three components that have a specification of their own further down *)
more == <<rp, gm, qc>>

MoreIdle == rp = NoRp /\ gm = NoGm /\ qc = NoQc

SideIdle == wf = NoWf /\ reg = NoReg /\ flow = NoFlow /\ MoreIdle

----------------------------------------------------------------------------
(* Rows *)

NewCase == [status |-> "submitted", progress |-> 0, group |-> NoGroup,
            task |-> NoTask, completed_at |-> FALSE, stale |-> FALSE,
            priority |-> 2]

FreeGpu == [status |-> "available", case |-> NoCase]

NoTaskRow == [st |-> "unused", case |-> NoCase, suffix |-> FALSE]

NoEvent == [op |-> "none", case |-> NoCase, group |-> NoGroup, res |-> "none",
            reach |-> TRUE, task |-> NoTask,
            gp0 |-> [g \in Groups |-> FreeGpu], c0 |-> NewCase]

IdleCursor == [rowcount |-> 0, rows |-> <<>>]

(* conn.in_transaction is False; gp is the table as of the last BEGIN *)
NoTxn == [open |-> FALSE, gp |-> [g \in Groups |-> FreeGpu]]

IdleWorker == [pc |-> "none", grp |-> NoGroup, site |-> "none",
               locked |-> NoGroup, tid |-> NoTask]

----------------------------------------------------------------------------
(* DatabaseManager: each operator is the effect of the method's statement  *)
(* on the table it writes.                                                 *)

update_case_status(cs, c, st, p) ==
    [cs EXCEPT ![c].status = st, ![c].progress = p, ![c].stale = FALSE]

(* the UPDATE also sets pueue_group and pueue_task_id to NULL *)
update_case_completion_resets(cs, c, st) ==
    [cs EXCEPT ![c].status = st, ![c].progress = 100, ![c].completed_at = TRUE,
               ![c].stale = FALSE, ![c].group = NoGroup, ![c].task = NoTask]

(* the UPDATE matches no row *)
update_case_completion_lost(cs, c, st) == cs

(* the UPDATE sets progress to 0 instead of 100 *)
update_case_completion_zero(cs, c, st) ==
    [cs EXCEPT ![c].status = st, ![c].progress = 0,
               ![c].completed_at = TRUE, ![c].stale = FALSE]

update_case_completion(cs, c, st) ==
    [cs EXCEPT ![c].status = st, ![c].progress = 100,
               ![c].completed_at = TRUE, ![c].stale = FALSE]

(* the UPDATE matches no row *)
update_case_pueue_task_id_lost(cs, c, t) == cs

update_case_pueue_task_id(cs, c, t) == [cs EXCEPT ![c].task = t]

(* the UPDATE matches no row *)
update_case_pueue_group_lost(cs, c, g) == cs

update_case_pueue_group(cs, c, g) == [cs EXCEPT ![c].group = g]

(* the UPDATE without its WHERE clause *)
release_gpu_resource_all(gp, c) == [g \in Groups |-> FreeGpu]

(* assigned_case_id is cleared but status is left as it was *)
release_gpu_resource_keeps_status(gp, c) ==
    [g \in Groups |-> IF gp[g].case = c THEN [gp[g] EXCEPT !.case = NoCase] ELSE gp[g]]

release_gpu_resource(gp, c) ==
    [g \in Groups |-> IF gp[g].case = c THEN FreeGpu ELSE gp[g]]

update_gpu_status(gp, g, st, c) == [gp EXCEPT ![g] = [status |-> st, case |-> c]]

get_gpu_resource_by_case_id(gp, c) == {g \in Groups : gp[g].case = c}

get_resources_by_status(gp, st) == {g \in Groups : gp[g].status = st}

(* ORDER BY priority DESC, created_at ASC: ids grow with created_at *)
Before(cs, a, b) ==
    \/ cs[a].priority > cs[b].priority
    \/ cs[a].priority = cs[b].priority /\ a <= b

(* ORDER BY case_id: priority is ignored *)
RECURSIVE SortedSeq(_, _)
SortedSeq(cs, S) ==
    IF S = {} THEN <<>>
    ELSE LET m == CHOOSE x \in S : \A y \in S : x <= y
         IN <<m>> \o SortedSeq(cs, S \ {m})

RECURSIVE OrderBy(_, _)
OrderBy(cs, S) ==
    IF S = {} THEN <<>>
    ELSE LET m == CHOOSE x \in S : \A y \in S : Before(cs, x, y)
         IN <<m>> \o OrderBy(cs, S \ {m})

(* SELECT * FROM cases WHERE status = ? ORDER BY priority DESC, created_at ASC *)
get_cases_by_status(cs, st) == OrderBy(cs, {c \in Cases : cs[c].status = st})

(* Number of rows an UPDATE ... WHERE assigned_case_id = c touches *)
RowsOf(gp, c) == Cardinality(get_gpu_resource_by_case_id(gp, c))

(* State of self.cursor after it executed a DML statement touching n rows *)
CursorAfterWrite(n) == [rowcount |-> n, rows |-> <<>>]

(* the inner SELECT without its WHERE clause *)
FirstOfAll(gp) == GroupOrder[1]

(* The inner SELECT of find_and_lock_any_available_gpu:                    *)
(* WHERE status = 'available' ORDER BY pueue_group LIMIT 1                 *)
FirstAvailable(gp) ==
    LET idx == {i \in 1..Len(GroupOrder) : gp[GroupOrder[i]].status = "available"}
    IN IF idx = {} THEN NoGroup
       ELSE GroupOrder[CHOOSE i \in idx : \A j \in idx : i <= j]

(* All orders in which a SELECT without ORDER BY may deliver a set of rows *)
RECURSIVE Orders(_)
Orders(S) ==
    IF S = {} THEN {<<>>}
    ELSE UNION {{<<x>> \o s : s \in Orders(S \ {x})} : x \in S}

----------------------------------------------------------------------------
(* The remote Pueue queue.  A label is the pair (case id, has the          *)
(* "_<epoch seconds>" suffix): "mqic_case_7_1700000000" is <<7, TRUE>>,    *)
(* "mqic_case_7" is <<7, FALSE>>; two labels are the same string iff the   *)
(* pairs are equal.                                                        *)

SubmitLabel(c) == [case |-> c, suffix |-> TRUE]      \* _submit_pueue_job
RecoveryLabel(c) == [case |-> c, suffix |-> FALSE]   \* recover_stuck_submitting_cases

LabelOf(task) == [case |-> task.case, suffix |-> task.suffix]

Listed(rm) == {t \in TaskIds : rm[t].st \in {"Running", "Success", "Failure"}}

Unused(rm) == {t \in TaskIds : rm[t].st = "unused"}

MinOf(S) == CHOOSE x \in S : \A y \in S : x <= y

(* WorkflowEngine.find_task_by_label: the first listed task whose label    *)
(* equals the argument; every failure of the ssh call is answered with     *)
(* ("not_found", None).                                                    *)
find_task_by_label(rm, label, reach) ==
    LET hits == {t \in Listed(rm) : LabelOf(rm[t]) = label}
    IN IF ~reach THEN [status |-> "not_found", id |-> NoTask]
       ELSE IF hits # {} THEN [status |-> "found", id |-> MinOf(hits)]
       ELSE [status |-> "not_found", id |-> NoTask]

(* RemoteExecutor.get_workflow_status *)
get_workflow_status(rm, t, reach) ==
    IF ~reach THEN "unreachable"
    ELSE IF t \notin Listed(rm) THEN "not_found"
    ELSE IF rm[t].st = "Success" THEN "success"
    ELSE IF rm[t].st = "Failure" THEN "failure"
    ELSE "running"

(* Effect of a successful "pueue kill <id>" on the queue *)
Killed(rm, t) ==
    IF t \in TaskIds /\ rm[t].st = "Running" THEN [rm EXCEPT ![t].st = "Failure"] ELSE rm

(* Jobs submitted by this program (as opposed to jobs of other users) *)
OwnTasks(rm) == {t \in TaskIds : rm[t].st # "unused" /\ rm[t].suffix}

----------------------------------------------------------------------------
(* One write of the main thread or of a worker, as a record, and its       *)
(* effect on the tables, the shared cursor and the lock history.           *)

Write(op, c, g, st, n) == [op |-> op, case |-> c, group |-> g, st |-> st, n |-> n]

CasesAfter(w, cs) ==
    CASE w.op = "task"       -> update_case_pueue_task_id(cs, w.case, w.n)
      [] w.op = "group"      -> update_case_pueue_group(cs, w.case, w.group)
      [] w.op = "status"     -> update_case_status(cs, w.case, w.st, w.n)
      [] w.op = "completion" -> update_case_completion(cs, w.case, w.st)
      [] OTHER               -> cs

GpusAfter(w, gp) ==
    CASE w.op = "release" -> release_gpu_resource(gp, w.case)
      [] w.op = "gpu"     -> update_gpu_status(gp, w.group, w.st, w.case)
      [] OTHER            -> gp

CursorAfter(w, gp) ==
    IF w.op = "release" THEN CursorAfterWrite(RowsOf(gp, w.case))
    ELSE CursorAfterWrite(1)

LockAfter(w, lb) ==
    IF w.op = "release"
    THEN [g \in Groups |-> IF lb[g] = w.case THEN NoCase ELSE lb[g]]
    ELSE lb

DoWrite(w) ==
    /\ cases' = CasesAfter(w, cases)
    /\ gpus' = GpusAfter(w, gpus)
    /\ cursor' = CursorAfter(w, gpus)
    /\ lockedBy' = LockAfter(w, lockedBy)

(* conn.rollback(), also what the death of the process does to the file:   *)
(* the statements executed since the transaction was opened are undone.    *)
RolledBack(tx, gp) == IF tx.open THEN tx.gp ELSE gp

LockRolledBack(tx, gp, lb) ==
    [g \in Groups |-> IF tx.open /\ gp[g] # tx.gp[g] THEN NoCase ELSE lb[g]]

(* DatabaseManager.transaction() when conn.in_transaction is already True: *)
(* "BEGIN IMMEDIATE" raises OperationalError, the except branch rolls the  *)
(* open transaction back and the error is re-raised to the caller.         *)
FailedBegin ==
    /\ gpus' = RolledBack(txn, gpus)
    /\ lockedBy' = LockRolledBack(txn, gpus, lockedBy)
    /\ txn' = NoTxn
    /\ UNCHANGED <<cases, cursor, side>>

----------------------------------------------------------------------------
(* DatabaseManager.find_and_lock_any_available_gpu, statement by           *)
(* statement.  The method runs inside "with self.conn", which takes no     *)
(* lock, and uses self.cursor.                                             *)

(* What the caller (_assign_optimal_gpu, or the sequential dispatch loop)  *)
(* does with the returned value: a name is the case's group; None from the *)
(* call made after get_optimal_gpu_assignment falls through to the         *)
(* fallback; None from the fallback call defers the case.                  *)
Returned(w, val) ==
    IF val # NoGroup THEN [w EXCEPT !.pc = "set_group", !.grp = val]
    ELSE IF w.site = "opt" THEN [w EXCEPT !.pc = "fb_check"]
    ELSE [w EXCEPT !.pc = "deferred"]

(* Places of a worker where its next step is a write made through         *)
(* DatabaseManager.transaction()                                           *)
WritePcs == {"set_group", "set_submitting", "ok_status", "ok_release",
             "fail_completion", "fail_release"}

(* "with self.conn" is left: the connection commits *)
Committed(tx) == NoTxn

(* UPDATE gpu_resources SET status = 'assigned', assigned_case_id = ?      *)
(* WHERE pueue_group = (first available).  The sqlite3 module opens a      *)
(* transaction before the UPDATE unless one is open already; the UPDATE    *)
(* can also land inside the transaction of a thread that is between the    *)
(* BEGIN and the commit of transaction() ("joined"), which commits it.     *)
FLUpdate(c) ==
    /\ wk[c].pc = "fl_update"
    /\ LET g == FirstAvailable(gpus)
       IN /\ gpus' = IF g = NoGroup THEN gpus
                     ELSE update_gpu_status(gpus, g, "assigned", c)
          /\ cursor' = CursorAfterWrite(IF g = NoGroup THEN 0 ELSE 1)
          /\ lockedBy' = IF g = NoGroup THEN lockedBy ELSE [lockedBy EXCEPT ![g] = c]
          /\ wk' = [wk EXCEPT ![c].pc = "fl_rowcount", ![c].locked = g]
    /\ \E joined \in BOOLEAN :
          /\ joined => (~txn.open /\ \E a \in Cases \ {c} : wk[a].pc \in WritePcs)
          /\ txn' = IF txn.open \/ joined THEN txn ELSE [open |-> TRUE, gp |-> gpus]
    /\ ev' = NoEvent
    /\ UNCHANGED <<cases, remote, cfg, sup, active, crashes, side>>

(* if self.cursor.rowcount > 0 *)
FLRowcount(c) ==
    /\ wk[c].pc = "fl_rowcount"
    /\ wk' = [wk EXCEPT ![c] = IF cursor.rowcount > 0
                                THEN [wk[c] EXCEPT !.pc = "fl_select"]
                                ELSE Returned(wk[c], NoGroup)]
    /\ txn' = IF cursor.rowcount > 0 THEN txn ELSE Committed(txn)
    /\ ev' = NoEvent
    /\ UNCHANGED <<cases, gpus, remote, cursor, cfg, sup, active, crashes, lockedBy, side>>

(* SELECT pueue_group FROM gpu_resources WHERE assigned_case_id = ? *)
FLSelect(c) ==
    /\ wk[c].pc = "fl_select"
    /\ \E rows \in Orders(get_gpu_resource_by_case_id(gpus, c)) :
          cursor' = [rowcount |-> -1, rows |-> rows]
    /\ wk' = [wk EXCEPT ![c].pc = "fl_fetch"]
    /\ ev' = NoEvent
    /\ UNCHANGED <<cases, gpus, remote, cfg, sup, active, crashes, lockedBy, txn, side>>

(* resource = self.cursor.fetchone(); return resource["pueue_group"] *)
FLFetch(c) ==
    /\ wk[c].pc = "fl_fetch"
    /\ IF cursor.rows = <<>>
       THEN /\ wk' = [wk EXCEPT ![c] = Returned(wk[c], NoGroup)]
            /\ UNCHANGED cursor
       ELSE /\ wk' = [wk EXCEPT ![c] = Returned(wk[c], Head(cursor.rows))]
            /\ cursor' = [cursor EXCEPT !.rows = Tail(cursor.rows)]
    /\ txn' = Committed(txn)
    /\ ev' = NoEvent
    /\ UNCHANGED <<cases, gpus, remote, cfg, sup, active, crashes, lockedBy, side>>

----------------------------------------------------------------------------
(* N threads calling find_and_lock_any_available_gpu at once on a table    *)
(* with some rows available and the others busy.                           *)

InitLock ==
    /\ cases = [c \in Cases |-> NewCase]
    /\ gpus \in [Groups -> {FreeGpu, [status |-> "busy", case |-> NoCase]}]
    /\ remote = [t \in TaskIds |-> NoTaskRow]
    /\ cursor = IdleCursor
    /\ txn = NoTxn
    /\ cfg = [parallel |-> TRUE, gpuMgr |-> FALSE]
    /\ sup = [pc |-> "batch", todo |-> <<>>, tick |-> 1, pend |-> <<>>,
              evp |-> NoEvent, dry |-> FALSE, held |-> FALSE]
    /\ \E callers \in SUBSET Cases :
          /\ wk = [c \in Cases |-> IF c \in callers
                                   THEN [IdleWorker EXCEPT !.pc = "fl_update", !.site = "fb"]
                                   ELSE IdleWorker]
          /\ active = callers
    /\ crashes = 0
    /\ lockedBy = [g \in Groups |-> NoCase]
    /\ ev = NoEvent
    /\ SideIdle

NextLock == \E c \in Cases : FLUpdate(c) \/ FLRowcount(c) \/ FLSelect(c) \/ FLFetch(c)

SpecLock == InitLock /\ [][NextLock]_vars

----------------------------------------------------------------------------
(* A worker: ParallelCaseProcessor._process_single_case in a pool thread,  *)
(* or the body of the loop of process_new_submitted_cases_with_optimization*)
(* in the main thread.  Both run the same steps.                           *)

Terminal == {"deferred", "done_ok", "done_fail", "done_exc"}

StartedWorker == [IdleWorker EXCEPT !.pc = IF cfg.gpuMgr THEN "assign" ELSE "fb_check"]

(* The same body called with gpu_manager = None *)
FallbackWorker == [IdleWorker EXCEPT !.pc = "fb_check"]

(* DynamicGpuManager.get_optimal_gpu_assignment: a group that is           *)
(* 'available' in the store and that the probes of the remote host report  *)
(* idle, or None (also when a probe fails).  Which of them the remote host *)
(* makes it return is the environment's choice.                            *)
get_optimal_gpu_assignment(gp) == {NoGroup} \cup get_resources_by_status(gp, "available")

GetOptimal(c) ==
    /\ wk[c].pc = "assign"
    /\ \E opt \in get_optimal_gpu_assignment(gpus) :
          wk' = [wk EXCEPT ![c].pc = IF opt # NoGroup THEN "fl_update" ELSE "fb_check",
                           ![c].site = IF opt # NoGroup THEN "opt" ELSE "none"]
    /\ ev' = NoEvent
    /\ UNCHANGED <<cases, gpus, remote, cursor, cfg, sup, active, crashes, lockedBy, txn, side>>

(* get_gpu_resource_by_case_id(case_id) or find_and_lock_any_available_gpu *)
FbCheck(c) ==
    /\ wk[c].pc = "fb_check"
    /\ LET rows == get_gpu_resource_by_case_id(gpus, c)
       IN IF rows = {}
          THEN wk' = [wk EXCEPT ![c].pc = "fl_update", ![c].site = "fb"]
          ELSE \E g \in rows : wk' = [wk EXCEPT ![c].pc = "set_group", ![c].grp = g]
    /\ ev' = NoEvent
    /\ UNCHANGED <<cases, gpus, remote, cursor, cfg, sup, active, crashes, lockedBy, txn, side>>

(* Where an exception raised at a place of the worker takes it: from the  *)
(* try block to the except branch, from the except branch out of           *)
(* _process_single_case.                                                   *)
Raised(from) == IF from \in {"fail_completion", "fail_release"} THEN "done_exc"
                ELSE "fail_completion"

WorkerWrite(c, from, w, to) ==
    /\ wk[c].pc = from
    /\ IF txn.open
       THEN /\ FailedBegin
            /\ wk' = [wk EXCEPT ![c].pc = Raised(from)]
       ELSE /\ DoWrite(w)
            /\ wk' = [wk EXCEPT ![c].pc = to]
            /\ UNCHANGED txn
    /\ ev' = NoEvent
    /\ UNCHANGED <<remote, cfg, sup, active, crashes, side>>

SetGroup(c) ==
    WorkerWrite(c, "set_group", Write("group", c, wk[c].grp, "", 0), "set_submitting")

SetSubmitting(c) ==
    WorkerWrite(c, "set_submitting", Write("status", c, NoGroup, "submitting", 10), "wf_submit")

(* WorkflowEngine.process_case up to and including _submit_pueue_job: the  *)
(* job is added and its id parsed ("ok"), a step before the submission     *)
(* fails ("fail"), or the job is added but the answer is lost or           *)
(* unparseable ("lost").                                                   *)
WfSubmit(c) ==
    /\ wk[c].pc = "wf_submit"
    /\ \E out \in {"ok", "fail", "lost"} :
          IF out = "fail" \/ Unused(remote) = {}
          THEN /\ wk' = [wk EXCEPT ![c].pc = "fail_completion"]
               /\ UNCHANGED remote
          ELSE LET t == MinOf(Unused(remote))
               IN /\ remote' = [remote EXCEPT ![t] =
                                   [st |-> "Running", case |-> SubmitLabel(c).case,
                                    suffix |-> SubmitLabel(c).suffix]]
                  /\ wk' = [wk EXCEPT ![c].pc = IF out = "ok" THEN "wf_monitor"
                                                ELSE "fail_completion",
                                      ![c].tid = IF out = "ok" THEN t ELSE NoTask]
    /\ ev' = NoEvent
    /\ UNCHANGED <<cases, gpus, cursor, cfg, sup, active, crashes, lockedBy, txn, side>>

(* RemoteExecutor._monitor_job_execution and the steps after it: the loop  *)
(* goes on while the job is reported running; success lets the remaining   *)
(* steps (download, postprocess) run, which succeed or fail; every other   *)
(* answer fails the step (no retry is configured by default).              *)
WfMonitor(c) ==
    /\ wk[c].pc = "wf_monitor"
    /\ \E reach \in BOOLEAN, rest \in BOOLEAN :
          LET st == get_workflow_status(remote, wk[c].tid, reach)
          IN /\ st # "running"
             /\ wk' = [wk EXCEPT ![c].pc = IF st = "success" /\ rest THEN "ok_status"
                                           ELSE "fail_completion"]
    /\ ev' = NoEvent
    /\ UNCHANGED <<cases, gpus, remote, cursor, cfg, sup, active, crashes, lockedBy, txn, side>>

OkStatus(c) ==
    WorkerWrite(c, "ok_status", Write("status", c, NoGroup, "completed", 100), "ok_release")

OkRelease(c) ==
    WorkerWrite(c, "ok_release", Write("release", c, NoGroup, "", 0), "done_ok")

FailCompletion(c) ==
    WorkerWrite(c, "fail_completion", Write("completion", c, NoGroup, "failed", 0), "fail_release")

FailRelease(c) ==
    WorkerWrite(c, "fail_release", Write("release", c, NoGroup, "", 0), "done_fail")

Worker(c) ==
    \/ GetOptimal(c) \/ FbCheck(c)
    \/ FLUpdate(c) \/ FLRowcount(c) \/ FLSelect(c) \/ FLFetch(c)
    \/ SetGroup(c) \/ SetSubmitting(c) \/ WfSubmit(c) \/ WfMonitor(c)
    \/ OkStatus(c) \/ OkRelease(c) \/ FailCompletion(c) \/ FailRelease(c)

----------------------------------------------------------------------------
(* The supervisor loop of main.py.  An iteration of a phase first reads    *)
(* and asks the remote host (one step), then issues its writes one         *)
(* statement at a time (sup.pend); the process can die between two of      *)
(* them.  ev records the iteration once its last write is done.            *)

IdleSup == [pc |-> "idle", todo |-> <<>>, tick |-> 0, pend |-> <<>>,
            evp |-> NoEvent, dry |-> FALSE, held |-> FALSE,
            probe |-> [ok |-> FALSE, busy |-> {}]]

Event(op, c, g, res, reach, t) ==
    [op |-> op, case |-> c, group |-> g, res |-> res, reach |-> reach, task |-> t,
     gp0 |-> gpus, c0 |-> IF c \in Cases THEN cases[c] ELSE NewCase]

(* Queue the writes of an iteration, or publish it at once if it has none  *)
Plan(writes, e) ==
    /\ sup' = [sup EXCEPT !.todo = Tail(sup.todo), !.pend = writes,
                          !.evp = IF writes = <<>> THEN NoEvent ELSE e]
    /\ ev' = IF writes = <<>> THEN e ELSE NoEvent

SupWrite ==
    /\ sup.pend # <<>>
    /\ DoWrite(Head(sup.pend))
    /\ sup' = [sup EXCEPT !.pend = Tail(sup.pend),
                          !.evp = IF Len(sup.pend) = 1 THEN NoEvent ELSE sup.evp]
    /\ ev' = IF Len(sup.pend) = 1 THEN sup.evp ELSE NoEvent
    /\ UNCHANGED <<remote, cfg, wk, active, crashes, txn, side>>

(* What refresh_gpu_resources learnt from its probes: nothing, or the set *)
(* of groups that have a running Pueue task or a busy hardware index.      *)
NoProbe == [ok |-> FALSE, busy |-> {}]

(* the refresh also resets rows that are 'assigned' or 'zombie' *)
update_db_status_from_hardware_all(gp, busy) ==
    LET new_status(g) == IF g \in busy THEN "busy" ELSE "available"
        todo == {g \in Groups : new_status(g) # gp[g].status}
    IN {ws \in [1..Cardinality(todo) -> {Write("gpu", NoCase, g, new_status(g), 0) : g \in todo}] :
           \A i, j \in 1..Cardinality(todo) : i # j => ws[i] # ws[j]}

(* DynamicGpuManager.update_db_status_from_hardware on the rows it has     *)
(* read: rows that are 'assigned' or 'zombie' are skipped, every other row *)
(* whose status differs from what the probes say gets one                  *)
(* update_gpu_status(group, new_status, case_id=None).  all_groups is a    *)
(* Python set, so the writes come in any order.                            *)
update_db_status_from_hardware(gp, busy) ==
    LET new_status(g) == IF g \in busy THEN "busy" ELSE "available"
        todo == {g \in Groups : /\ gp[g].status \notin {"assigned", "zombie"}
                                /\ new_status(g) # gp[g].status}
    IN {ws \in [1..Cardinality(todo) -> {Write("gpu", NoCase, g, new_status(g), 0) : g \in todo}] :
           \A i, j \in 1..Cardinality(todo) : i # j => ws[i] # ws[j]}

(* if gpu_manager and loop_iteration % gpu_refresh_interval == 0:          *)
(* refresh_gpu_resources reads the rows and queues its writes, or one of   *)
(* its probes raises and main() logs a warning.                            *)
RefreshGpu ==
    /\ sup.pc = "idle"
    /\ sup.tick < MaxTicks
    /\ cfg.gpuMgr
    /\ \/ \E busy \in SUBSET Groups :
             \E ws \in update_db_status_from_hardware(gpus, busy) :
                sup' = [sup EXCEPT !.pc = "refreshed", !.pend = ws,
                                   !.probe = [ok |-> TRUE, busy |-> busy]]
       \/ sup' = [sup EXCEPT !.pc = "refreshed"]
    /\ ev' = NoEvent
    /\ UNCHANGED <<cases, gpus, remote, cursor, cfg, wk, active, crashes, lockedBy, txn, side>>

(* loop_iteration += 1; recover_stuck_submitting_cases reads its list *)
BeginTick ==
    /\ sup.pc \in {"idle", "refreshed"} /\ sup.pend = <<>>
    /\ sup.tick < MaxTicks
    /\ sup' = [sup EXCEPT !.pc = "p1", !.tick = sup.tick + 1, !.probe = NoProbe,
                          !.todo = get_cases_by_status(cases, "submitting")]
    /\ ev' = NoEvent
    /\ UNCHANGED <<cases, gpus, remote, cursor, cfg, wk, active, crashes, lockedBy, txn, side>>

(* recover_stuck_submitting_cases, one iteration of its loop *)
Recover ==
    /\ sup.pc = "p1" /\ sup.pend = <<>> /\ sup.todo # <<>>
    /\ LET c == Head(sup.todo)
       IN \E reach \in BOOLEAN :
             LET r == find_task_by_label(remote, RecoveryLabel(c), reach)
                 e == Event("recover", c, cases[c].group, r.status, reach, r.id)
             IN CASE r.status = "found" /\ r.id # NoTask ->
                        Plan(<<Write("task", c, NoGroup, "", r.id),
                               Write("status", c, NoGroup, "running", 30)>>, e)
                  [] r.status \in {"found", "not_found"} /\ ~(r.status = "found" /\ r.id # NoTask) ->
                        Plan(<<Write("completion", c, NoGroup, "failed", 0),
                               Write("release", c, NoGroup, "", 0)>>, e)
                  [] OTHER -> Plan(<<>>, e)
    /\ UNCHANGED <<cases, gpus, remote, cursor, cfg, wk, active, crashes, lockedBy, txn, side>>

(* manage_running_cases, one iteration of its loop *)
Manage ==
    /\ sup.pc = "p2" /\ sup.pend = <<>> /\ sup.todo # <<>>
    /\ LET c == Head(sup.todo)
           row == cases[c]
       IN \E reach \in BOOLEAN, ok \in BOOLEAN :
             IF row.task = NoTask
             THEN /\ Plan(<<Write("completion", c, NoGroup, "failed", 0),
                            Write("release", c, NoGroup, "", 0)>>,
                          Event("manage", c, row.group, "no_task", TRUE, NoTask))
                  /\ UNCHANGED remote
             ELSE IF row.stale
             THEN /\ remote' = IF ok THEN Killed(remote, row.task) ELSE remote
                  /\ Plan(<<Write("completion", c, NoGroup, "failed", 0)>> \o
                          (IF ok THEN <<Write("release", c, NoGroup, "", 0)>>
                           ELSE IF row.group # NoGroup
                                THEN <<Write("gpu", c, row.group, "zombie", 0)>>
                                ELSE <<>>),
                          Event("manage", c, row.group,
                                IF ok THEN "timeout_killed" ELSE "timeout_kill_failed",
                                TRUE, row.task))
             ELSE LET st == get_workflow_status(remote, row.task, reach)
                  IN /\ Plan(IF st \in {"success", "failure", "not_found"}
                             THEN <<Write("release", c, NoGroup, "", 0),
                                    Write("completion", c, NoGroup,
                                          IF st = "success" THEN "completed" ELSE "failed", 0)>>
                             ELSE <<>>,
                             Event("manage", c, row.group, st, reach, row.task))
                     /\ UNCHANGED remote
    /\ UNCHANGED <<cases, gpus, cursor, cfg, wk, active, crashes, lockedBy, txn, side>>

(* recover_stuck_submitting_cases has returned; manage_running_cases reads its list *)
ToManage ==
    /\ sup.pc = "p1" /\ sup.pend = <<>> /\ sup.todo = <<>>
    /\ sup' = [sup EXCEPT !.pc = "p2", !.todo = get_cases_by_status(cases, "running")]
    /\ ev' = NoEvent
    /\ UNCHANGED <<cases, gpus, remote, cursor, cfg, wk, active, crashes, lockedBy, txn, side>>

(* manage_running_cases has returned; manage_zombie_resources reads its list *)
ZombieRows(gp, order) == [i \in 1..Len(order) |-> [group |-> order[i], case |-> gp[order[i]].case]]

ToReclaim ==
    /\ sup.pc = "p2" /\ sup.pend = <<>> /\ sup.todo = <<>>
    /\ \E order \in Orders(get_resources_by_status(gpus, "zombie")) :
          sup' = [sup EXCEPT !.pc = "p3", !.todo = ZombieRows(gpus, order)]
    /\ ev' = NoEvent
    /\ UNCHANGED <<cases, gpus, remote, cursor, cfg, wk, active, crashes, lockedBy, txn, side>>

(* not zombie_case or not (task_id := zombie_case.get("pueue_task_id")):   *)
(* Python's "not" is true of None and of the integer 0.                    *)
Falsy(t) == t = NoTask \/ t = 0

(* manage_zombie_resources, one iteration of its loop *)
Reclaim ==
    /\ sup.pc = "p3" /\ sup.pend = <<>> /\ sup.todo # <<>>
    /\ LET z == Head(sup.todo)
           c == z.case
       IN IF c \notin Cases \/ Falsy(cases[c].task)
          THEN /\ Plan(<<>>, Event("reclaim", c, z.group, "skipped", TRUE, NoTask))
               /\ UNCHANGED remote
          ELSE \E ok \in BOOLEAN :
                  /\ remote' = IF ok THEN Killed(remote, cases[c].task) ELSE remote
                  /\ Plan(IF ok THEN <<Write("release", c, NoGroup, "", 0)>> ELSE <<>>,
                          Event("reclaim", c, z.group,
                                IF ok THEN "killed" ELSE "kill_failed", TRUE, cases[c].task))
    /\ UNCHANGED <<cases, gpus, cursor, cfg, wk, active, crashes, lockedBy, txn, side>>

(* Whether the next iteration of the phase asks the remote host:           *)
(* find_task_by_label in phase 1; kill_workflow or get_workflow_status in  *)
(* phase 2, for a case that has a task id; kill_workflow in phase 3, for a *)
(* zombie row whose case has one.                                          *)
CallsRemote ==
    /\ sup.pend = <<>> /\ sup.todo # <<>>
    /\ CASE sup.pc = "p1" -> TRUE
         [] sup.pc = "p2" -> cases[Head(sup.todo)].task # NoTask
         [] sup.pc = "p3" -> /\ Head(sup.todo).case \in Cases
                             /\ ~Falsy(cases[Head(sup.todo).case].task)
         [] OTHER -> FALSE

(* The call raises an exception that neither the method nor the phase      *)
(* catches (subprocess.run raises OSError when ssh cannot be started; the  *)
(* methods catch TimeoutExpired, CalledProcessError, JSONDecodeError and   *)
(* KeyError only).  It leaves the phase and reaches the "except Exception" *)
(* of the loop body in main(), which logs it and goes to sleep.            *)
PhaseRaises ==
    /\ sup.pc \in {"p1", "p2", "p3"}
    /\ CallsRemote
    /\ sup' = [sup EXCEPT !.pc = "idle", !.todo = <<>>]
    /\ ev' = NoEvent
    /\ UNCHANGED <<cases, gpus, remote, cursor, txn, cfg, wk, active, crashes, lockedBy, side>>

(* What the dispatch phase sees when it starts: no row is 'available';     *)
(* some submitted case already owns a row.                                 *)
Dry(gp) == get_resources_by_status(gp, "available") = {}

Held(cs, gp) == \E c \in Cases : cs[c].status = "submitted" /\ get_gpu_resource_by_case_id(gp, c) # {}

Batch(cs) ==
    LET all == get_cases_by_status(cs, "submitted")
    IN SubSeq(all, 1, IF Len(all) <= batch_size THEN Len(all) ELSE batch_size)

(* every case of the batch, in flight or not *)
AcceptedAll(batch, inflight) == {batch[i] : i \in 1..Len(batch)}

(* with self.processing_lock: if case_id in self.active_case_ids: continue *)
Accepted(batch, inflight) == {batch[i] : i \in 1..Len(batch)} \ inflight

(* ParallelCaseProcessor.process_case_batch: the cases of the batch that   *)
(* are not already in flight get a pool thread each (the batches of the    *)
(* model never exceed the pool).                                           *)
DispatchParallel ==
    /\ sup.pc = "p3" /\ sup.pend = <<>> /\ sup.todo = <<>>
    /\ cfg.parallel
    /\ LET batch == Batch(cases)
           new == Accepted(batch, active)
       IN /\ wk' = [c \in Cases |-> IF c \in new THEN StartedWorker ELSE wk[c]]
          /\ active' = active \cup new
    /\ sup' = [sup EXCEPT !.pc = "batch", !.dry = Dry(gpus), !.held = Held(cases, gpus)]
    /\ ev' = NoEvent
    /\ UNCHANGED <<cases, gpus, remote, cursor, cfg, crashes, lockedBy, txn, side>>

(* finally: self.active_case_ids.discard(case_id), as the future is reaped *)
Collect(c) ==
    /\ sup.pc = "batch"
    /\ wk[c].pc \in Terminal
    /\ wk' = [wk EXCEPT ![c] = IdleWorker]
    /\ active' = active \ {c}
    /\ ev' = NoEvent
    /\ UNCHANGED <<cases, gpus, remote, cursor, cfg, sup, crashes, lockedBy, txn, side>>

(* as_completed(..., timeout=processing_timeout) raises TimeoutError while *)
(* a future is unfinished: the loop that reaps the futures is left for     *)
(* good, so the ids of the futures not reaped by now stay in               *)
(* active_case_ids.  The deadline does nothing but end the reaping, so it  *)
(* is enough to let it pass while the last unfinished thread is running.   *)
Unfinished == {c \in Cases : wk[c].pc \notin Terminal \cup {"none"}}

PoolTimeout ==
    /\ sup.pc = "batch"
    /\ Cardinality(Unfinished) = 1
    /\ sup' = [sup EXCEPT !.pc = "expired"]
    /\ ev' = NoEvent
    /\ UNCHANGED <<cases, gpus, remote, cursor, txn, cfg, wk, active, crashes, lockedBy, side>>

(* The exception leaves the "with ThreadPoolExecutor" block, whose exit    *)
(* waits for every thread to end; process_new_submitted_cases_parallel     *)
(* then answers it with                                                    *)
(* process_new_submitted_cases_with_optimization(db_manager,               *)
(* workflow_engine).                                                       *)
PoolShutdown ==
    /\ sup.pc = "expired"
    /\ \A c \in Cases : wk[c].pc \in Terminal \cup {"none"}
    /\ wk' = [c \in Cases |-> IdleWorker]
    /\ sup' = [sup EXCEPT !.pc = "seq_fb", !.todo = get_cases_by_status(cases, "submitted")]
    /\ ev' = NoEvent
    /\ UNCHANGED <<cases, gpus, remote, cursor, txn, cfg, active, crashes, lockedBy, side>>

(* the dispatch is started when phase 2 ends, before the zombie reclaim *)
DispatchSequential_early ==
    /\ sup.pc = "p2" /\ sup.pend = <<>> /\ sup.todo = <<>>
    /\ ~cfg.parallel
    /\ sup' = [sup EXCEPT !.pc = "seq", !.todo = get_cases_by_status(cases, "submitted"),
                          !.dry = Dry(gpus), !.held = Held(cases, gpus)]
    /\ ev' = NoEvent
    /\ UNCHANGED <<cases, gpus, remote, cursor, cfg, wk, active, crashes, lockedBy, txn, side>>

(* process_new_submitted_cases_with_optimization: the cases one by one in  *)
(* the main thread.                                                        *)
DispatchSequential ==
    /\ sup.pc = "p3" /\ sup.pend = <<>> /\ sup.todo = <<>>
    /\ ~cfg.parallel
    /\ sup' = [sup EXCEPT !.pc = "seq", !.todo = get_cases_by_status(cases, "submitted"),
                          !.dry = Dry(gpus), !.held = Held(cases, gpus)]
    /\ ev' = NoEvent
    /\ UNCHANGED <<cases, gpus, remote, cursor, cfg, wk, active, crashes, lockedBy, txn, side>>

SeqStart ==
    /\ sup.pc \in {"seq", "seq_fb"} /\ sup.todo # <<>>
    /\ wk[Head(sup.todo)].pc = "none"
    /\ wk' = [wk EXCEPT ![Head(sup.todo)] = IF sup.pc = "seq" THEN StartedWorker
                                            ELSE FallbackWorker]
    /\ ev' = NoEvent
    /\ UNCHANGED <<cases, gpus, remote, cursor, cfg, sup, active, crashes, lockedBy, txn, side>>

(* next case of the loop, or "break" when no GPU could be had *)
SeqCollect ==
    /\ sup.pc \in {"seq", "seq_fb"} /\ sup.todo # <<>>
    /\ wk[Head(sup.todo)].pc \in Terminal
    /\ wk' = [wk EXCEPT ![Head(sup.todo)] = IdleWorker]
    /\ sup' = [sup EXCEPT !.todo = IF wk[Head(sup.todo)].pc = "deferred"
                                   THEN <<>> ELSE Tail(sup.todo)]
    /\ ev' = NoEvent
    /\ UNCHANGED <<cases, gpus, remote, cursor, cfg, active, crashes, lockedBy, txn, side>>

(* time.sleep(sleep_interval) *)
EndTick ==
    /\ \/ sup.pc = "batch" /\ \A c \in Cases : wk[c].pc = "none"
       \/ sup.pc \in {"seq", "seq_fb"} /\ sup.todo = <<>>
    /\ sup' = [sup EXCEPT !.pc = "idle", !.dry = FALSE, !.held = FALSE]
    /\ ev' = NoEvent
    /\ UNCHANGED <<cases, gpus, remote, cursor, cfg, wk, active, crashes, lockedBy, txn, side>>

Supervisor ==
    \/ RefreshGpu \/ BeginTick \/ Recover \/ ToManage \/ Manage \/ ToReclaim \/ Reclaim
    \/ SupWrite \/ DispatchParallel \/ PoolTimeout \/ PoolShutdown \/ DispatchSequential
    \/ SeqStart \/ SeqCollect \/ PhaseRaises
    \/ EndTick \/ \E c \in Cases : Collect(c)

----------------------------------------------------------------------------
(* The environment: time, the remote queue and its other users, and the    *)
(* death of the process.                                                   *)

(* The program looks at the clock and at the queue at a few points only,   *)
(* so it is enough to let them move right before it looks: when a phase    *)
(* is about to handle a case, and while a worker polls its job.            *)
AboutToHandle(phase, c) ==
    sup.pc = phase /\ sup.pend = <<>> /\ sup.todo # <<>> /\ Head(sup.todo) = c

Observed(t) ==
    \/ \E c \in Cases : wk[c].pc = "wf_monitor" /\ wk[c].tid = t
    \/ \E c \in Cases : AboutToHandle("p1", c)
    \/ \E c \in Cases : AboutToHandle("p2", c) /\ cases[c].task = t

(* status_updated_at + running_case_timeout_hours passes *)
Age(c) ==
    /\ AboutToHandle("p2", c)
    /\ cases[c].status = "running" /\ ~cases[c].stale
    /\ cases' = [cases EXCEPT ![c].stale = TRUE]
    /\ ev' = NoEvent
    /\ UNCHANGED <<gpus, remote, cursor, cfg, sup, wk, active, crashes, lockedBy, txn, side>>

TaskFinish(t) ==
    /\ Observed(t)
    /\ remote[t].st = "Running"
    /\ \E r \in {"Success", "Failure"} : remote' = [remote EXCEPT ![t].st = r]
    /\ ev' = NoEvent
    /\ UNCHANGED <<cases, gpus, cursor, cfg, sup, wk, active, crashes, lockedBy, txn, side>>

(* "pueue clean" / "pueue remove": a finished task leaves the list *)
TaskRemove(t) ==
    /\ Observed(t)
    /\ remote[t].st \in {"Success", "Failure"}
    /\ remote' = [remote EXCEPT ![t].st = "removed"]
    /\ ev' = NoEvent
    /\ UNCHANGED <<cases, gpus, cursor, cfg, sup, wk, active, crashes, lockedBy, txn, side>>

(* Somebody else (an operator, another tool) adds a task whose label is    *)
(* exactly "mqic_case_<c>".                                                *)
ForeignAdd(c) ==
    /\ AboutToHandle("p1", c)
    /\ Unused(remote) # {}
    /\ remote' = [remote EXCEPT ![MinOf(Unused(remote))] =
                     [st |-> "Running", case |-> RecoveryLabel(c).case,
                      suffix |-> RecoveryLabel(c).suffix]]
    /\ ev' = NoEvent
    /\ UNCHANGED <<cases, gpus, cursor, cfg, sup, wk, active, crashes, lockedBy, txn, side>>

(* The process is killed and started again: threads and the in-flight set *)
(* are gone, the committed database file and the queue remain.             *)
Crash ==
    /\ crashes < MaxCrashes
    /\ crashes' = crashes + 1
    /\ wk' = [c \in Cases |-> IdleWorker]
    /\ active' = {}
    /\ cursor' = IdleCursor
    /\ sup' = [IdleSup EXCEPT !.tick = sup.tick]
    /\ gpus' = RolledBack(txn, gpus)
    /\ lockedBy' = LockRolledBack(txn, gpus, lockedBy)
    /\ txn' = NoTxn
    /\ ev' = NoEvent
    /\ UNCHANGED <<cases, remote, cfg, side>>

Environment ==
    \/ \E c \in Cases : Age(c) \/ ForeignAdd(c)
    \/ \E t \in TaskIds : TaskFinish(t) \/ TaskRemove(t)
    \/ Crash

----------------------------------------------------------------------------
(* The whole program: the scanner has registered the cases, main() has     *)
(* created the GPU rows and built the optional components or not.          *)

Init ==
    /\ cases = [c \in Cases |-> NewCase]
    /\ gpus = [g \in Groups |-> FreeGpu]
    /\ remote = [t \in TaskIds |-> NoTaskRow]
    /\ cursor = IdleCursor
    /\ txn = NoTxn
    /\ cfg \in [parallel : BOOLEAN, gpuMgr : BOOLEAN]
    /\ sup = IdleSup
    /\ wk = [c \in Cases |-> IdleWorker]
    /\ active = {}
    /\ crashes = 0
    /\ lockedBy = [g \in Groups |-> NoCase]
    /\ ev = NoEvent
    /\ SideIdle

Next == Supervisor \/ Environment \/ \E c \in Cases : Worker(c)

Spec == Init /\ [][Next]_vars

(* The same program started on a store in which the later case has the     *)
(* higher priority (CasePriority.LOW = 1, HIGH = 3) and one GPU row is     *)
(* 'available', the other 'busy'.                                          *)
PriorityOf == [c \in Cases |-> IF c = 1 THEN 1 ELSE 3]

InitPrio ==
    /\ cases = [c \in Cases |-> [NewCase EXCEPT !.priority = PriorityOf[c]]]
    /\ gpus = [g \in Groups |-> IF g = GroupOrder[1] THEN FreeGpu
                                 ELSE [status |-> "busy", case |-> NoCase]]
    /\ remote = [t \in TaskIds |-> NoTaskRow]
    /\ cursor = IdleCursor
    /\ txn = NoTxn
    /\ cfg \in [parallel : BOOLEAN, gpuMgr : BOOLEAN]
    /\ sup = IdleSup
    /\ wk = [c \in Cases |-> IdleWorker]
    /\ active = {}
    /\ crashes = 0
    /\ lockedBy = [g \in Groups |-> NoCase]
    /\ ev = NoEvent
    /\ SideIdle

SpecPrio == InitPrio /\ [][Next]_vars

----------------------------------------------------------------------------
(* The methods of DatabaseManager called one at a time on a store in any   *)
(* state its columns allow; ev records the call and the rows before it.    *)

Statuses == {"submitted", "submitting", "running", "completed", "failed"}

ProgressOf(st) ==
    CASE st = "submitted" -> 0 [] st = "submitting" -> 10 [] st = "running" -> 30
      [] OTHER -> 100

CaseRows ==
    {[status |-> st, progress |-> ProgressOf(st), group |-> g, task |-> t,
      completed_at |-> st \in {"completed", "failed"}, stale |-> FALSE, priority |-> 2] :
        st \in Statuses, g \in Groups \cup {NoGroup}, t \in {NoTask, 0}}

GpuRows ==
    {FreeGpu, [status |-> "busy", case |-> NoCase]}
       \cup {[status |-> st, case |-> c] : st \in {"assigned", "zombie"}, c \in Cases}

InitDb ==
    /\ cases \in [Cases -> CaseRows]
    /\ \A c \in Cases : c > 1 => cases[c] = NewCase
    /\ gpus \in [Groups -> GpuRows]
    /\ remote = [t \in TaskIds |-> NoTaskRow]
    /\ cursor = IdleCursor
    /\ txn = NoTxn
    /\ cfg = [parallel |-> FALSE, gpuMgr |-> FALSE]
    /\ sup = IdleSup
    /\ wk = [c \in Cases |-> IdleWorker]
    /\ active = {}
    /\ crashes = 0
    /\ lockedBy = [g \in Groups |-> NoCase]
    /\ ev = NoEvent
    /\ SideIdle

DbCall(w) ==
    /\ DoWrite(w)
    /\ ev' = Event(w.op, w.case, w.group, w.st, TRUE, NoTask)
    /\ UNCHANGED <<remote, txn, cfg, sup, wk, active, crashes, side>>

(* db_manager.update_case_completion(c, st) *)
DbCompletion == \E c \in Cases, st \in Statuses : DbCall(Write("completion", c, NoGroup, st, 0))

(* db_manager.release_gpu_resource(c) *)
DbRelease == \E c \in Cases : DbCall(Write("release", c, NoGroup, "", 0))

NextDb == DbCompletion \/ DbRelease

SpecDb == InitDb /\ [][NextDb]_vars

----------------------------------------------------------------------------
(* Claims about the methods of DatabaseManager                             *)

(* C15: update_case_completion leaves pueue_group and pueue_task_id of the *)
(* case as they were, whatever the row held before.                        *)
C15_CompletionKeepsHistory ==
    ev.op = "completion" =>
       /\ cases[ev.case].group = ev.c0.group
       /\ cases[ev.case].task = ev.c0.task

C15_Witness ==
    /\ ev.op = "completion" /\ ev.c0.status = "running"
    /\ ev.c0.group # NoGroup /\ ev.c0.task # NoTask
    /\ cases[ev.case].status = "failed"

(* C16: update_case_completion with 'completed' or 'failed' sets that      *)
(* status, progress 100 and completed_at; with any other status it is      *)
(* rejected and the case row is as it was.                                 *)
C16_CompletionTerminalOnly ==
    ev.op = "completion" =>
       IF ev.res \in {"completed", "failed"}
       THEN /\ cases[ev.case].status = ev.res
            /\ cases[ev.case].progress = 100
            /\ cases[ev.case].completed_at
       ELSE cases[ev.case] = ev.c0

(* C17: release_gpu_resource(c) makes every row that was assigned to c     *)
(* 'available' with no case and leaves the other rows as they were; a      *)
(* further call changes nothing.                                           *)
C17_ReleaseIdempotent ==
    ev.op = "release" =>
       /\ \A g \in Groups :
             gpus[g] = IF ev.gp0[g].case = ev.case THEN FreeGpu ELSE ev.gp0[g]
       /\ release_gpu_resource(gpus, ev.case) = gpus

C17_Witness ==
    /\ ev.op = "release"
    /\ \E g, h \in Groups :
          /\ ev.gp0[g].case = ev.case /\ gpus[g] = FreeGpu
          /\ ev.gp0[h].status = "assigned" /\ ev.gp0[h].case # ev.case /\ gpus[h] = ev.gp0[h]

----------------------------------------------------------------------------
(* Claims about find_and_lock_any_available_gpu under concurrency          *)

Callers == {c \in Cases : wk[c].pc # "none"}

HasReturned(c) == wk[c].pc \in {"set_group", "deferred"}

GotName(c) == wk[c].pc = "set_group"

(* Rows that were 'available' when the calls were issued: those still      *)
(* available plus those a call has locked since.                           *)
InitiallyAvailable ==
    {g \in Groups : gpus[g].status = "available" \/ lockedBy[g] # NoCase}

MinNat(a, b) == IF a <= b THEN a ELSE b

(* C1: when N concurrent find_and_lock_any_available_gpu calls on M        *)
(* available rows have all returned, exactly min(N, M) of them returned a  *)
(* group name and no name was returned to two callers.                     *)
C1_ExclusiveLock ==
    (\A c \in Callers : HasReturned(c)) =>
        /\ Cardinality({c \in Callers : GotName(c)})
               = MinNat(Cardinality(Callers), Cardinality(InitiallyAvailable))
        /\ \A c, d \in Callers :
               (GotName(c) /\ GotName(d) /\ c # d) => wk[c].grp # wk[d].grp

----------------------------------------------------------------------------
(* Claims about the whole program                                          *)

ReturnedName(w) == IF w.pc = "set_group" THEN w.grp ELSE NoGroup

LeavesFindAndLock(c) ==
    /\ wk[c].pc \in {"fl_rowcount", "fl_fetch"}
    /\ wk'[c].pc \in {"set_group", "fb_check", "deferred"}

LockFirst(gp, c) ==
    IF FirstAvailable(gp) = NoGroup THEN gp
    ELSE [gp EXCEPT ![FirstAvailable(gp)] = [status |-> "assigned", case |-> c]]

(* C3: a find_and_lock_any_available_gpu call that runs alone (sequential  *)
(* dispatch) turns exactly the first available row, in name order, into    *)
(* assigned / case_id and leaves the other rows as they are, or changes    *)
(* nothing when no row is available; what it returns is the name of the    *)
(* row it set, or None when it set none.                                   *)
C3_SingleCall ==
    [][\A c \in Cases :
          /\ (wk[c].pc = "fl_update" /\ wk'[c].pc = "fl_rowcount")
                => gpus' = LockFirst(gpus, c)
          /\ (~cfg.parallel /\ LeavesFindAndLock(c))
                => /\ gpus' = gpus
                   /\ ReturnedName(wk'[c]) = wk[c].locked]_vars

----------------------------------------------------------------------------
(* Claims about the supervisor phases.  ev describes the iteration that    *)
(* has just finished: the case, what the remote call answered, and the     *)
(* tables as they were before (gp0, c0).  "The case's GPU rows" are the    *)
(* rows whose assigned_case_id was the case before the iteration.          *)

RowsBefore(c) == {g \in Groups : ev.gp0[g].case = c}

Freed(c) == \A g \in RowsBefore(c) : gpus[g] = FreeGpu

(* C4: phase 1, case in 'submitting': on "found" with a task id the case   *)
(* has that task id, is 'running' with progress 30 and no GPU row has      *)
(* changed; on "not_found" the case is 'failed' and its GPU rows are       *)
(* 'available'.                                                            *)
C4_RecoverOutcome ==
    ev.op = "recover" =>
       /\ (ev.res = "found" /\ ev.task # NoTask) =>
             /\ cases[ev.case].task = ev.task
             /\ cases[ev.case].status = "running"
             /\ cases[ev.case].progress = 30
             /\ gpus = ev.gp0
       /\ ev.res = "not_found" =>
             /\ cases[ev.case].status = "failed"
             /\ Freed(ev.case)

C4_Witness ==
    /\ ev.op = "recover" /\ ev.res = "found"
    /\ cases[ev.case].status = "running"
    /\ RowsBefore(ev.case) # {}

OwnListed(c) == {t \in Listed(remote) : remote[t].case = c /\ remote[t].suffix}

C8_PollOutcome ==
    ev.op = "manage" =>
       /\ ev.res = "success" =>
             cases[ev.case].status = "completed" /\ Freed(ev.case)
       /\ ev.res \in {"failure", "not_found"} =>
             cases[ev.case].status = "failed" /\ Freed(ev.case)
       /\ ev.res \in {"running", "unreachable"} =>
             cases[ev.case] = ev.c0 /\ gpus = ev.gp0

C8_Witness ==
    /\ ev.op = "manage" /\ ev.res = "success"
    /\ cases[ev.case].status = "completed"
    /\ RowsBefore(ev.case) # {}

----------------------------------------------------------------------------
(* Claims about the dispatch phase                                         *)

InDispatch == sup.pc \in {"batch", "expired", "seq", "seq_fb"}

(* A step that moves no submitted case, writes no gpu_group, submits no    *)
(* job and changes no GPU row.                                             *)
DispatchFrame ==
    /\ gpus' = gpus
    /\ \A c \in Cases :
          /\ cases'[c].group = cases[c].group
          /\ cases[c].status = "submitted" => cases'[c].status = "submitted"
    /\ OwnTasks(remote') \subseteq OwnTasks(remote)

----------------------------------------------------------------------------
(* Claims about the order of dispatch                                      *)

(* The step makes find-and-lock assign a row to case c *)
Locks(c) ==
    \E g \in Groups : gpus[g].status = "available"
                       /\ gpus'[g] = [status |-> "assigned", case |-> c]

(* A submitted case that holds no GPU row *)
Waiting(d) == cases[d].status = "submitted" /\ get_gpu_resource_by_case_id(gpus, d) = {}

(* C11: when exactly one GPU row is available and several submitted cases  *)
(* wait for one, the case that obtains the row comes first among them in   *)
(* the order priority descending, created_at ascending; with the worker    *)
(* pool as well as with sequential dispatch.                               *)
C11_PriorityOrder ==
    [][\A c \in Cases :
          (Locks(c) /\ Cardinality(get_resources_by_status(gpus, "available")) = 1)
             => \A d \in Cases : Waiting(d) => Before(cases, c, d)]_vars

----------------------------------------------------------------------------
(* Claims about the worker pool                                            *)

(* process_case_batch hands case c to a pool thread in this step *)
PoolStarts(c) == sup.pc = "p3" /\ sup'.pc = "batch" /\ wk'[c] # wk[c]

(* C12: process_case_batch starts a thread for a case only when the case   *)
(* is not in the in-flight set and no thread is running it, and puts its   *)
(* id into the set in the same step; while the pool runs, every case a     *)
(* thread is working on is in the set.                                     *)
C12_OneWorkerPerCase ==
    [][\A c \in Cases :
          /\ PoolStarts(c) => (c \notin active /\ wk[c].pc = "none" /\ c \in active')
          /\ (sup.pc = "batch" /\ wk[c].pc # "none") => c \in active]_vars

(* a submitted case of the batch was skipped because its id is in flight *)
C12_Witness ==
    /\ sup.pc = "batch"
    /\ \E c, d \in Cases :
          /\ c \in active /\ wk[c].pc = "none" /\ cases[c].status = "submitted"
          /\ d # c /\ wk[d].pc # "none"

(* _process_single_case (or the body of the sequential loop) has ended for *)
(* a case it dispatched                                                    *)
Finished(c) == wk[c].pc \in {"done_ok", "done_fail", "done_exc"}

(* C13: when a worker has finished a case it dispatched, by success, by a  *)
(* failure of the workflow or by an exception, no GPU row carries the id   *)
(* of the case unless the row is 'zombie'.                                 *)
C13_WorkerReleases ==
    \A c \in Cases :
       Finished(c) => \A g \in Groups : gpus[g].case = c => gpus[g].status = "zombie"

----------------------------------------------------------------------------
(* Claims about the life of a case                                         *)

(* The worker of case c moves from one place to the next in this step *)
Moves(c, from, to) == wk[c].pc = from /\ wk'[c].pc = to

----------------------------------------------------------------------------
(* Invariants of the store                                                 *)

(* C18: a case that is 'submitting' or 'running' has its pueue_group set,  *)
(* and a case that is 'running' has its pueue_task_id set.                 *)
C18_ActiveCaseHasGroupAndTask ==
    \A c \in Cases :
       /\ cases[c].status \in {"submitting", "running"} => cases[c].group # NoGroup
       /\ cases[c].status = "running" => cases[c].task # NoTask

C18_Witness ==
    \E c \in Cases : cases[c].status = "running" /\ cases[c].group # NoGroup

(* The main thread is between two iterations of the loop and no worker is  *)
(* at work: every operation that was started has ended.                    *)
Quiescent == sup.pc = "idle" /\ \A c \in Cases : wk[c].pc = "none"

(* C19: a GPU row is 'assigned' exactly when its assigned_case_id is set   *)
(* and refers to a case that is 'submitting' or 'running'; stated for the  *)
(* states between two iterations of the loop.                              *)
C19_AssignedIffActive ==
    Quiescent =>
       \A g \in Groups :
          gpus[g].status = "assigned"
             <=> (gpus[g].case \in Cases
                    /\ cases[gpus[g].case].status \in {"submitting", "running"})

(* C20: a GPU row that is 'zombie' has its assigned_case_id set, and that  *)
(* case is 'completed' or 'failed'.                                        *)
C20_ZombieOfTerminalCase ==
    \A g \in Groups :
       gpus[g].status = "zombie" =>
          /\ gpus[g].case \in Cases
          /\ cases[gpus[g].case].status \in {"completed", "failed"}

C20_Witness ==
    \E g \in Groups :
       /\ gpus[g].status = "zombie" /\ gpus[g].case \in Cases
       /\ cases[gpus[g].case].status = "failed" /\ cases[gpus[g].case].group = g

----------------------------------------------------------------------------
(* Claims about the progress column                                        *)

TerminalStatus == {"completed", "failed"}

(* C21: no step of the supervisor or of a worker lowers the stored         *)
(* progress of a case that has not reached 'completed' or 'failed'.        *)
C21_ProgressMonotone ==
    [][\A c \in Cases :
          cases[c].status \notin TerminalStatus
             => cases'[c].progress >= cases[c].progress]_vars

(* phase 1 has moved a case from 'submitting' (10) to 'running' (30) *)
C21_Witness ==
    /\ ev.op = "recover" /\ ev.c0.status = "submitting" /\ ev.c0.progress = 10
    /\ cases[ev.case].status = "running" /\ cases[ev.case].progress = 30

(* C28: when the processing timeout of the pool passes, the pool writes    *)
(* neither the case rows nor the GPU rows, and every case of the batch     *)
(* whose thread has returned is accounted for: it is no longer held in     *)
(* active_case_ids.                                                        *)
C28_TimeoutAbandons ==
    [][(sup.pc = "batch" /\ sup'.pc = "expired")
          => /\ cases' = cases /\ gpus' = gpus
             /\ \A c \in Cases : wk[c].pc \in Terminal => c \notin active']_vars

PhaseDone == sup.pend = <<>> /\ sup.todo = <<>>

(* C24: within a tick the phases are entered in the order recovery,        *)
(* management of running cases, zombie reclaim, dispatch, each only when   *)
(* the one before it has gone through its whole list; recovery is entered  *)
(* only from the sleep between two ticks.                                  *)
C24_PhaseOrder ==
    [][/\ (sup'.pc = "p1" /\ sup.pc # "p1") => sup.pc \in {"idle", "refreshed"}
       /\ (sup'.pc = "p2" /\ sup.pc # "p2") => (sup.pc = "p1" /\ PhaseDone)
       /\ (sup'.pc = "p3" /\ sup.pc # "p3") => (sup.pc = "p2" /\ PhaseDone)
       /\ (InDispatch' /\ ~InDispatch) => (sup.pc = "p3" /\ PhaseDone)]_vars

(* the dispatch of the second tick has started a worker *)
C24_Witness ==
    /\ sup.pc = "seq" /\ sup.tick = 2
    /\ \E c \in Cases : wk[c].pc \notin Terminal \cup {"none"}

(* C25: a tick that has entered one of the phases 1 to 3 goes on to the    *)
(* next phase and to the dispatch whatever the phase raises: unless the    *)
(* process is killed, the loop does not go to sleep from inside phase 1,   *)
(* 2 or 3.                                                                 *)
C25_TickContinues ==
    [][(sup.pc \in {"p1", "p2", "p3"} /\ crashes' = crashes) => sup'.pc # "idle"]_vars

----------------------------------------------------------------------------
(* WorkflowEngine (workflow_engine.py): the configured list of steps, the  *)
(* choice of the step to start from, and one call of process_case with the *)
(* attempts of each step.  The calls of the logger are taken to return.    *)

MaxSteps == 2           \* steps of main_workflow
MaxRetries == 1         \* largest retry count of a step

NoStatus == "<none>"    \* Python None: step.get(...) of a key that is absent
StatusNames == {"NEW", "done", "failed"}

(* step_config.get('retry', {}) and its keys 'count' and 'on_error' *)
NoRetry == [given |-> FALSE, count |-> 0, on_error |-> <<>>]

RetryConfigs ==
    {NoRetry}
       \cup {[given |-> TRUE, count |-> n, on_error |-> <<>>] : n \in -1..MaxRetries}
       \cup {[given |-> TRUE, count |-> MaxRetries, on_error |-> <<"network">>]}

StepConfigs ==
    [succ : {"NEW", "done", NoStatus}, fail : {"done", "failed"},
     type : {"local", "remote", "bogus"}, retry : RetryConfigs]

Workflows == UNION {[1..n -> StepConfigs] : n \in 0..MaxSteps}

Min2(a, b) == IF a < b THEN a ELSE b

StatusKeys == StatusNames \cup {NoStatus}

(* the loop of _determine_starting_step from position index (counted from  *)
(* 0) on; status_to_step[k] = -1 stands for a key that is not in the dict  *)
RECURSIVE scan_workflow(_, _, _, _)
scan_workflow(main_workflow, current_status, index, status_to_step) ==
    IF index = Len(main_workflow)
    THEN IF status_to_step[current_status] # -1 THEN status_to_step[current_status]
         ELSE 0
    ELSE LET step == main_workflow[index + 1]
         IN IF current_status = step.succ
            THEN Min2(index + 1, Len(main_workflow))
            ELSE scan_workflow(main_workflow, current_status, index + 1,
                               [status_to_step EXCEPT ![step.fail] = index])

_determine_starting_step(main_workflow, current_status) ==
    scan_workflow(main_workflow, current_status, 0, [k \in StatusKeys |-> -1])

(* retry_config.get('count', 0) with a default of one retry *)
max_retries_one(step_config) ==
    IF step_config.retry.given THEN step_config.retry.count ELSE 1

(* retry_config.get('count', 0) *)
max_retries(step_config) ==
    IF step_config.retry.given THEN step_config.retry.count ELSE 0

(* range(max_retries + 1) *)
attempts(step_config) == 0..max_retries(step_config)

(* categorize_error: the pair (category, is_retryable) *)
categorize_error(category) == <<category, category = "network">>

ErrorCategories == {"network", "application"}

(* error_category in retry_on_errors: the names of the list against the    *)
(* pair that categorize_error returns                                       *)
InList(error_category, retry_on_errors) ==
    \E i \in 1..Len(retry_on_errors) : <<retry_on_errors[i]>> = error_category

should_retry(attempt, step_config, error_category) ==
    /\ attempt < max_retries(step_config)
    /\ (step_config.retry.on_error = <<>>
          \/ InList(error_category, step_config.retry.on_error))

(* the loop of process_case goes on after a step that failed *)
after_step_goes_on(success, step_index, main_workflow) ==
    IF step_index + 1 < Len(main_workflow) THEN "next" ELSE "true"

(* the loop of process_case after _execute_workflow_step has returned *)
after_step(success, step_index, main_workflow) ==
    IF ~success THEN "false"
    ELSE IF step_index + 1 < Len(main_workflow) THEN "next" ELSE "true"

IdleWf(main_workflow, db) ==
    [pc |-> "idle", steps |-> main_workflow, db |-> db, arg |-> NoStatus, start |-> -1,
     idx |-> -1, attempt |-> 0, inv |-> 0, last |-> "none", ran |-> <<>>,
     result |-> "none", jobs |-> 0]

CoreIdle ==
    /\ cases = [c \in Cases |-> NewCase]
    /\ gpus = [g \in Groups |-> FreeGpu]
    /\ remote = [t \in TaskIds |-> NoTaskRow]
    /\ cursor = IdleCursor
    /\ txn = NoTxn
    /\ cfg = [parallel |-> FALSE, gpuMgr |-> FALSE]
    /\ sup = IdleSup
    /\ wk = [c \in Cases |-> IdleWorker]
    /\ active = {}
    /\ crashes = 0
    /\ lockedBy = [g \in Groups |-> NoCase]
    /\ ev = NoEvent

core == <<cases, gpus, remote, cursor, txn, cfg, sup, wk, active, crashes, lockedBy, ev>>

(* WorkflowEngine(config, db_manager): any list of steps, with or without  *)
(* a database manager                                                      *)
InitWf ==
    /\ CoreIdle
    /\ wf \in {IdleWf(w, db) : w \in Workflows, db \in BOOLEAN}
    /\ reg = NoReg /\ flow = NoFlow /\ MoreIdle

(* a call of _determine_starting_step with any status *)
WfDetermine ==
    /\ wf.pc = "idle"
    /\ \E s \in StatusNames :
          wf' = [wf EXCEPT !.arg = s, !.start = _determine_starting_step(wf.steps, s)]
    /\ UNCHANGED <<core, reg, flow, more>>

(* what the step that has just returned leaves behind, and where           *)
(* process_case goes from there                                            *)
StepReturns(success, inv, last, jobs) ==
    LET way == after_step(success, wf.idx, wf.steps)
    IN wf' = [wf EXCEPT !.jobs = jobs,
                 !.ran = Append(@, [idx |-> wf.idx, ok |-> success, inv |-> inv,
                                    last |-> last]),
                 !.pc = IF way = "next" THEN "step" ELSE "returned",
                 !.idx = IF way = "next" THEN wf.idx + 1 ELSE wf.idx,
                 !.attempt = 0, !.inv = 0, !.last = "none",
                 !.result = IF way = "next" THEN "none" ELSE way]

(* process_case up to the first step: with a database manager              *)
(* get_case_status is called, which DatabaseManager does not have, and the *)
(* AttributeError is caught by the handler of process_case                 *)
WfProcessCase ==
    /\ wf.pc = "idle"
    /\ IF wf.db
       THEN wf' = [wf EXCEPT !.pc = "returned", !.result = "false"]
       ELSE LET first == _determine_starting_step(wf.steps, "NEW")
            IN wf' = [wf EXCEPT !.arg = "NEW", !.start = first, !.idx = first,
                                !.pc = IF first < Len(wf.steps) THEN "step" ELSE "returned",
                                !.result = IF first < Len(wf.steps) THEN "none" ELSE "true"]
    /\ UNCHANGED <<core, reg, flow, more>>

(* RemoteExecutor._run_moqui: the call returns after the job it added has  *)
(* ended with success; when it raises, the job it added, if it got that    *)
(* far, has ended or is still queued or running (the answer of "pueue add" *)
(* is unusable, the host is unreachable for _monitor_job_execution, the    *)
(* monitoring is interrupted): nothing kills it.  The local executor adds  *)
(* no job.                                                                 *)
JobLeft(step_config, out) ==
    IF step_config.type = "remote" /\ out # "ok" THEN {0, 1} ELSE {0}

(* one iteration of "for attempt in range(max_retries + 1)": the executor  *)
(* returns, raises LocalExecutionError / RemoteExecutionError of some      *)
(* category, or raises something else; a step of unknown type raises       *)
(* WorkflowExecutionError without any executor being called                *)
WfAttempt ==
    /\ wf.pc = "step"
    /\ wf.attempt \in attempts(wf.steps[wf.idx + 1])
    /\ LET step_config == wf.steps[wf.idx + 1]
       IN IF step_config.type \notin {"local", "remote"}
          THEN StepReturns(FALSE, wf.inv, "config", wf.jobs)
          ELSE \E out \in {"ok", "other"} \cup ErrorCategories :
               \E left \in JobLeft(step_config, out) :
                  CASE out = "ok" -> StepReturns(TRUE, wf.inv + 1, out, wf.jobs)
                    [] out = "other" -> StepReturns(FALSE, wf.inv + 1, out, wf.jobs + left)
                    [] OTHER ->
                         IF should_retry(wf.attempt, step_config, categorize_error(out))
                         THEN wf' = [wf EXCEPT !.attempt = @ + 1, !.inv = @ + 1,
                                               !.last = out, !.jobs = @ + left]
                         ELSE StepReturns(FALSE, wf.inv + 1, out, wf.jobs + left)
    /\ UNCHANGED <<core, reg, flow, more>>

(* the range is used up: "return False" after the loop *)
WfExhausted ==
    /\ wf.pc = "step"
    /\ wf.attempt \notin attempts(wf.steps[wf.idx + 1])
    /\ StepReturns(FALSE, wf.inv, wf.last, wf.jobs)
    /\ UNCHANGED <<core, reg, flow, more>>

(* a job on the remote host ends *)
WfJobEnds ==
    /\ wf.pc \in {"step", "returned"}
    /\ wf.jobs > 0
    /\ wf' = [wf EXCEPT !.jobs = @ - 1]
    /\ UNCHANGED <<core, reg, flow, more>>

NextWf == WfDetermine \/ WfProcessCase \/ WfAttempt \/ WfExhausted \/ WfJobEnds

SpecWf == InitWf /\ [][NextWf]_vars

SuccessAt(main_workflow, s) == {i \in 1..Len(main_workflow) : main_workflow[i].succ = s}
FailureAt(main_workflow, s) == {i \in 1..Len(main_workflow) : main_workflow[i].fail = s}

(* C22: the starting step returned for a status is k+1, with k the highest *)
(* index (counted from 0) of a step whose on_success_status is the status; *)
(* without such a step, the index of a step whose on_failure_status is the *)
(* status; without that either, 0.                                         *)
C22_StartingStep ==
    wf.start # -1 =>
        LET S == SuccessAt(wf.steps, wf.arg)
            F == FailureAt(wf.steps, wf.arg)
        IN IF S # {} THEN wf.start = CHOOSE i \in S : \A j \in S : j <= i
           ELSE IF F # {} THEN wf.start + 1 \in F
           ELSE wf.start = 0

----------------------------------------------------------------------------
(* CaseScanner (case_scanner.py) and the rows of table cases by path: the  *)
(* initial scan of the watch directory in the main thread, then the        *)
(* watchdog thread handling one "created" event at a time.  Both register  *)
(* a directory with get_case_by_path followed by add_case; between the two *)
(* calls other threads run.                                                *)

MaxEvents == 2          \* directories created while the program is watched
MaxRuns == 2            \* starts of the program on the same database file

Paths == {"case_a", "case_b"}
NoPath == "<none>"

(* SELECT * FROM cases WHERE case_path = ? *)
get_case_by_path(rows, case_path) == {i \in 1..Len(rows) : rows[i].path = case_path}

(* INSERT INTO cases on a table whose case_path column is not UNIQUE *)
add_case_not_unique(rows, case_path) ==
    [rows |-> Append(rows, [path |-> case_path, status |-> "submitted"]),
     raised |-> FALSE]

(* INSERT INTO cases (case_path, status, ...) VALUES (?, 'submitted', ...) *)
(* with case_path TEXT NOT NULL UNIQUE: sqlite3.IntegrityError is raised   *)
(* and no row is written when the path is there already                    *)
add_case(rows, case_path) ==
    IF get_case_by_path(rows, case_path) # {}
    THEN [rows |-> rows, raised |-> TRUE]
    ELSE [rows |-> Append(rows, [path |-> case_path, status |-> "submitted"]),
          raised |-> FALSE]

(* os.listdir(watch_path): the directories in some order *)
listdir(disk) ==
    {s \in [1..Cardinality(disk) -> disk] : \A i, j \in 1..Cardinality(disk) :
                                               s[i] = s[j] => i = j}

NoOp == [kind |-> "none", path |-> NoPath, raised |-> FALSE]

StartedScanner(disk, rows, runs, events, todo) ==
    [pc |-> "scan", disk |-> disk, rows |-> rows, todo |-> todo, queue |-> <<>>,
     cur |-> NoPath, intxn |-> FALSE, runs |-> runs, events |-> events, op |-> NoOp]

(* main(): CaseScanner(...), perform_initial_scan() on an empty database *)
InitScan ==
    /\ CoreIdle
    /\ \E disk \in SUBSET Paths : \E todo \in listdir(disk) :
          reg = StartedScanner(disk, <<>>, 1, 0, todo)
    /\ wf = NoWf /\ flow = NoFlow /\ MoreIdle

(* the first half of _add_case_if_not_exists: the path is looked up, and   *)
(* add_case is to be called if no row was found                            *)
Lookup(case_path, kind) ==
    [reg EXCEPT !.cur = IF get_case_by_path(reg.rows, case_path) = {} THEN case_path
                        ELSE NoPath,
                !.op = [kind |-> kind, path |-> case_path, raised |-> FALSE]]

(* perform_initial_scan: the next name of the listing, if it still is a    *)
(* directory                                                               *)
ScanItem ==
    /\ reg.pc = "scan" /\ reg.cur = NoPath /\ reg.todo # <<>>
    /\ LET item_path == Head(reg.todo)
       IN reg' = IF item_path \in reg.disk
                 THEN [Lookup(item_path, "lookup") EXCEPT !.todo = Tail(reg.todo)]
                 ELSE [reg EXCEPT !.todo = Tail(reg.todo), !.op = NoOp]
    /\ UNCHANGED <<core, wf, flow, more>>

(* case_scanner.start(): from now on created directories raise events *)
StartWatch ==
    /\ reg.pc = "scan" /\ reg.cur = NoPath /\ reg.todo = <<>>
    /\ reg' = [reg EXCEPT !.pc = "watch", !.op = NoOp]
    /\ UNCHANGED <<core, wf, flow, more>>

(* _NewCaseHandler.on_created for the next event of the observer thread *)
OnCreated ==
    /\ reg.pc = "watch" /\ reg.cur = NoPath /\ reg.queue # <<>>
    /\ reg' = [Lookup(Head(reg.queue), "lookup") EXCEPT !.queue = Tail(reg.queue)]
    /\ UNCHANGED <<core, wf, flow, more>>

(* the effect of a call of add_case on the table and on the connection:    *)
(* after a failed INSERT the implicit transaction stays open               *)
CallAddCase(case_path, kind) ==
    LET r == add_case(reg.rows, case_path)
    IN [reg EXCEPT !.rows = r.rows, !.intxn = r.raised,
                   !.op = [kind |-> kind, path |-> case_path, raised |-> r.raised]]

(* the second half of _add_case_if_not_exists: add_case, any exception     *)
(* being caught and logged                                                 *)
AddIfNotExists ==
    /\ reg.cur # NoPath
    /\ reg' = [CallAddCase(reg.cur, "add_case") EXCEPT !.cur = NoPath]
    /\ UNCHANGED <<core, wf, flow, more>>

(* some other caller of db_manager.add_case(case_path) *)
AddCaseDirect ==
    /\ reg.pc \in {"scan", "watch"}
    /\ \E p \in Paths : reg' = CallAddCase(p, "add_case")
    /\ UNCHANGED <<core, wf, flow, more>>

(* the supervisor moves a registered case on *)
RowChanges ==
    /\ reg.pc \in {"scan", "watch"}
    /\ \E i \in 1..Len(reg.rows) :
          /\ reg.rows[i].status = "submitted"
          /\ reg' = [reg EXCEPT !.rows[i].status = "running", !.op = NoOp]
    /\ UNCHANGED <<core, wf, flow, more>>

(* a directory appears in the watch directory; the observer, once started, *)
(* queues an event for it                                                  *)
DirCreated ==
    /\ reg.pc \in {"scan", "watch"}
    /\ reg.events < MaxEvents
    /\ \E p \in Paths \ reg.disk :
          reg' = [reg EXCEPT !.disk = @ \cup {p}, !.events = @ + 1, !.op = NoOp,
                             !.queue = IF reg.pc = "watch" THEN Append(@, p) ELSE @]
    /\ UNCHANGED <<core, wf, flow, more>>

DirRemoved ==
    /\ reg.pc \in {"scan", "watch"}
    /\ \E p \in reg.disk : reg' = [reg EXCEPT !.disk = @ \ {p}, !.op = NoOp]
    /\ UNCHANGED <<core, wf, flow, more>>

(* the program is stopped and started again on the same database file *)
Rescan ==
    /\ reg.pc \in {"scan", "watch"}
    /\ reg.runs < MaxRuns
    /\ \E todo \in listdir(reg.disk) :
          reg' = StartedScanner(reg.disk, reg.rows, reg.runs + 1, reg.events, todo)
    /\ UNCHANGED <<core, wf, flow, more>>

NextScan ==
    \/ ScanItem \/ StartWatch \/ OnCreated \/ AddIfNotExists \/ AddCaseDirect
    \/ RowChanges \/ DirCreated \/ DirRemoved \/ Rescan

SpecScan == InitScan /\ [][NextScan]_vars

(* C27: the table holds at most one row per path; a registration or a call *)
(* of add_case for a path that has a row leaves every row as it was, and   *)
(* the call of add_case raises.                                            *)
C27_OneRowPerPath ==
    [][/\ \A i, j \in 1..Len(reg'.rows) : reg'.rows[i].path = reg'.rows[j].path => i = j
       /\ \A p \in Paths :
             (get_case_by_path(reg.rows, p) # {} /\ reg'.op.path = p)
                => /\ reg'.rows = reg.rows
                   /\ reg'.op.kind = "add_case" => reg'.op.raised]_vars

(* the handler of a "created" event finds that its path has a row, which   *)
(* the supervisor has moved on in the meantime, and leaves it alone        *)
C27_Witness ==
    /\ reg.pc = "watch" /\ reg.op.kind = "lookup" /\ reg.cur = NoPath
    /\ \E i \in 1..Len(reg.rows) :
          reg.rows[i].path = reg.op.path /\ reg.rows[i].status = "running"

----------------------------------------------------------------------------
(* mqi_communicator_new: a worker process takes one case through the       *)
(* states of states.py.  Each action is the execute method of one state,   *)
(* called on the state that the previous one returned, as the loop that    *)
(* run_workflow describes does; the handlers are interfaces whose calls    *)
(* succeed, report a failure or raise.  WorkerMain is worker_main as it is *)
(* written.                                                                *)

NumWorkers == 2         \* worker processes, one case each

Workers == 1..NumWorkers
NoMsg == "<null>"       \* workflow_steps.error_message IS NULL
NoState == "None"
StepNames == {"preprocessing", "file_upload", "hpc_execution", "download", "postprocessing"}
Outcomes == {"ok", "fail", "exc"}

NewFlow ==
    [pc |-> "new", state |-> NoState, status |-> "NEW", progress |-> 0,
     steps |-> [s \in StepNames |-> [st |-> "none", msg |-> NoMsg]],
     sent |-> 0, failed |-> "none"]

(* add_case(case_id, case_path) with status 'NEW' for every case *)
InitFlow ==
    /\ CoreIdle
    /\ flow = [w \in Workers |-> NewFlow]
    /\ wf = NoWf /\ reg = NoReg /\ MoreIdle

(* record_workflow_step(case_id, step_name, 'STARTED'): INSERT *)
step_started(f, name) == [f EXCEPT !.steps[name] = [st |-> "STARTED", msg |-> NoMsg]]

(* record_workflow_step(case_id, step_name, status, error_message): UPDATE *)
(* of the row of the step that is not completed yet                         *)
record_workflow_step(f, name, status, error_message) ==
    IF f.steps[name].st = "STARTED"
    THEN [f EXCEPT !.steps[name] = [st |-> status, msg |-> error_message]]
    ELSE f

(* update_case_status(case_id, status, progress); progress -1 is None *)
update_status(f, status, progress) ==
    [f EXCEPT !.status = status, !.progress = IF progress = -1 THEN @ ELSE progress]

(* the text recorded for a reported failure and for an exception *)
ErrorText(out) == IF out = "fail" THEN "result.error" ELSE "str(e)"

(* the branches that the states share: success records COMPLETED, sends    *)
(* the progress and returns the next state; failure and exception record   *)
(* FAILED with the message, send the update and return None                *)
Executed(f, name, out, next, done, at) ==
    IF out = "ok"
    THEN [record_workflow_step(step_started(f, name), name, "COMPLETED", NoMsg)
             EXCEPT !.state = next, !.sent = done]
    ELSE [record_workflow_step(step_started(f, name), name, "FAILED", ErrorText(out))
             EXCEPT !.state = NoState, !.pc = "ended", !.sent = at, !.failed = name]

(* the loop of run_workflow starts with PreProcessingState() *)
RunWorkflow(w) ==
    /\ flow[w].pc = "new"
    /\ flow' = [flow EXCEPT ![w].pc = "run", ![w].state = "PreProcessingState"]
    /\ UNCHANGED <<core, wf, reg, more>>

(* worker_main: WorkflowManager(case_id=..., case_path=..., config=..., ...) *)
(* raises TypeError, __init__ taking case_id only; the handler sets the    *)
(* case to FAILED and the process exits                                    *)
WorkerMain(w) ==
    /\ flow[w].pc = "new"
    /\ flow' = [flow EXCEPT ![w] = [update_status(flow[w], "FAILED", -1)
                                       EXCEPT !.pc = "ended"]]
    /\ UNCHANGED <<core, wf, reg, more>>

PreProcessing(w) ==
    /\ flow[w].pc = "run" /\ flow[w].state = "PreProcessingState"
    /\ \E out \in Outcomes :
          flow' = [flow EXCEPT ![w] =
                      Executed(flow[w], "preprocessing", out, "FileUploadState", 20, 5)]
    /\ UNCHANGED <<core, wf, reg, more>>

FileUpload(w) ==
    /\ flow[w].pc = "run" /\ flow[w].state = "FileUploadState"
    /\ \E out \in Outcomes :
          flow' = [flow EXCEPT ![w] =
                      Executed(flow[w], "file_upload", out, "HpcExecutionState", 40, 25)]
    /\ UNCHANGED <<core, wf, reg, more>>

(* HpcExecutionState.execute up to the polling loop *)
HpcStart(w) ==
    /\ flow[w].pc = "run" /\ flow[w].state = "HpcExecutionState"
    /\ \E out \in Outcomes :
          flow' = [flow EXCEPT ![w] =
                      IF out = "ok"
                      THEN [step_started(flow[w], "hpc_execution")
                               EXCEPT !.pc = "poll", !.sent = 50]
                      ELSE Executed(flow[w], "hpc_execution", out, NoState, 0,
                                    IF out = "fail" THEN 45 ELSE 50)]
    /\ UNCHANGED <<core, wf, reg, more>>

(* the polling loop: check_job_completion finds the result file or raises; *)
(* while it finds nothing the loop sleeps and asks again                   *)
HpcPoll(w) ==
    /\ flow[w].pc = "poll"
    /\ \E out \in {"ok", "exc"} :
          flow' = [flow EXCEPT ![w] =
                      IF out = "ok"
                      THEN [record_workflow_step(flow[w], "hpc_execution", "COMPLETED", NoMsg)
                               EXCEPT !.pc = "run", !.state = "DownloadState", !.sent = 70]
                      ELSE [record_workflow_step(flow[w], "hpc_execution", "FAILED",
                                                 ErrorText(out))
                               EXCEPT !.pc = "ended", !.state = NoState, !.sent = 50,
                                      !.failed = "hpc_execution"]]
    /\ UNCHANGED <<core, wf, reg, more>>

Download(w) ==
    /\ flow[w].pc = "run" /\ flow[w].state = "DownloadState"
    /\ \E out \in Outcomes :
          flow' = [flow EXCEPT ![w] =
                      Executed(flow[w], "download", out, "PostProcessingState", 90, 75)]
    /\ UNCHANGED <<core, wf, reg, more>>

(* the only state that writes the status of the case *)
PostProcessing(w) ==
    /\ flow[w].pc = "run" /\ flow[w].state = "PostProcessingState"
    /\ \E out \in Outcomes :
          LET f == Executed(flow[w], "postprocessing", out, NoState, 100, 95)
          IN flow' = [flow EXCEPT ![w] =
                         IF out = "ok"
                         THEN [update_status(f, "COMPLETED", 100) EXCEPT !.pc = "ended"]
                         ELSE update_status(f, "FAILED", -1)]
    /\ UNCHANGED <<core, wf, reg, more>>

NextFlow ==
    \E w \in Workers :
       \/ RunWorkflow(w) \/ WorkerMain(w)
       \/ PreProcessing(w) \/ FileUpload(w) \/ HpcStart(w) \/ HpcPoll(w)
       \/ Download(w) \/ PostProcessing(w)

SpecFlow == InitFlow /\ [][NextFlow]_vars

----------------------------------------------------------------------------
(* Retry decisions of the workflow engine *)

(* the attempt of this step has raised an execution error and the loop     *)
(* goes to the next attempt                                                *)
Retried == wf'.pc = "step" /\ wf'.idx = wf.idx /\ wf'.attempt = wf.attempt + 1

(* the attempt of this step has raised an execution error and the step has *)
(* returned False                                                          *)
GaveUp ==
    /\ Len(wf'.ran) = Len(wf.ran) + 1
    /\ wf'.ran[Len(wf'.ran)].last \in ErrorCategories

----------------------------------------------------------------------------
(* RetryPolicy (retry_policy.py): one call of execute(func).  Delays are   *)
(* whole seconds.                                                          *)

MaxPolicyRetries == 2   \* largest max_retries of a policy

ErrorKinds == {"network", "system", "configuration", "application", "unknown"}

(* ErrorCategory.is_retryable *)
is_retryable(category) == category \in {"network", "system"}

(* RetryPolicy._is_transient_error: the second component of categorize_error *)
_is_transient_error(category) == is_retryable(category)

RECURSIVE Power(_, _)
Power(b, e) == IF e = 0 THEN 1 ELSE b * Power(b, e - 1)

(* the delay is not capped by max_delay *)
_calculate_delay_uncapped(policy, attempt) ==
    policy.base_delay * Power(policy.backoff_multiplier, attempt)

(* RetryPolicy._calculate_delay *)
_calculate_delay(policy, attempt) ==
    Min2(policy.base_delay * Power(policy.backoff_multiplier, attempt), policy.max_delay)

Policies ==
    [max_retries : 0..MaxPolicyRetries, base_delay : {1, 2}, max_delay : {3, 60},
     backoff_multiplier : {1, 2}]

(* RetryPolicy(max_retries, base_delay, max_delay, backoff_multiplier) and *)
(* a call of execute that has not called func yet                          *)
InitRp ==
    /\ CoreIdle
    /\ wf = NoWf /\ reg = NoReg /\ flow = NoFlow /\ gm = NoGm /\ qc = NoQc
    /\ \E policy \in Policies :
          rp = [pc |-> "loop", policy |-> policy, attempt |-> 0, calls |-> <<>>,
                slept |-> <<>>, raised |-> "none"]

(* one iteration of "for attempt in range(self.max_retries + 1)": func     *)
(* returns, or raises an error of some kind; after the last iteration      *)
(* RetryExhaustedError is raised                                           *)
RpAttempt ==
    /\ rp.pc = "loop"
    /\ \E out \in {"ok"} \cup ErrorKinds :
          LET called == [rp EXCEPT !.calls = Append(@, out)]
          IN rp' = IF out = "ok" THEN [called EXCEPT !.pc = "returned"]
                   ELSE IF ~_is_transient_error(out)
                   THEN [called EXCEPT !.pc = "raised", !.raised = out]
                   ELSE IF rp.attempt < rp.policy.max_retries
                   THEN [called EXCEPT
                            !.slept = Append(@, _calculate_delay(rp.policy, rp.attempt)),
                            !.attempt = @ + 1]
                   ELSE [called EXCEPT !.pc = "raised", !.raised = "RetryExhaustedError"]
    /\ UNCHANGED <<core, wf, reg, flow, gm, qc>>

NextRp == RpAttempt

SpecRp == InitRp /\ [][NextRp]_vars

Transient == {"network", "system"}

----------------------------------------------------------------------------
(* The refresh of the GPU rows against the workers' locks *)

Locked == {"assigned", "zombie"}

(* one update_gpu_status of the refresh is executed *)
RefreshWrites ==
    /\ sup.pc = "refreshed" /\ sup.pend # <<>>
    /\ sup'.pc = "refreshed" /\ sup'.pend = Tail(sup.pend)

----------------------------------------------------------------------------
(* Rows of one case, terminal cases and the in-flight set *)

RowsHeldBy(c) == {g \in Groups : gpus[g].case = c}

(* C35: in every reachable state a case holds at most one GPU row, also    *)
(* when a dispatch runs for a case that still holds the row of an earlier, *)
(* interrupted dispatch.                                                   *)
C35_OneGpuPerCase == \A c \in Cases : Cardinality(RowsHeldBy(c)) <= 1

C39_BatchLeavesNothing == sup.pc \notin {"batch", "expired"} => active = {}

----------------------------------------------------------------------------
(* DynamicGpuManager.get_optimal_gpu_assignment on the answers of its      *)
(* three probes and on the rows of gpu_resources.                          *)

MaxLoad == 1            \* running / queued tasks of a group: 0..MaxLoad

(* hardware index of a group that map_gpu_groups_to_indices could map *)
IndexOf(g) == CHOOSE i \in 1..Len(GroupOrder) : GroupOrder[i] = g

(* "pueue status --json": the groups in the order of the answer, and the   *)
(* counters of each                                                        *)
PueueAnswers ==
    [order : {o \in [1..Len(GroupOrder) -> Groups] : \A i, j \in DOMAIN o : i # j => o[i] # o[j]},
     stats : [Groups -> [running : 0..MaxLoad, queued : 0..MaxLoad]]]

(* nvidia-smi: per index is_busy and utilization_gpu + memory_percent *)
HardwareAnswers == [1..Len(GroupOrder) -> [is_busy : BOOLEAN, percent : {0, 50}]]

(* gpu_resources.status of each group, or no row *)
DbAnswers == [Groups -> {"available", "assigned", "missing"}]

(* the three checks of the loop: the row, the queue, the hardware *)
is_candidate(p, g) ==
    /\ p.db[g] = "available"
    /\ p.pueue.stats[g].running = 0
    /\ ~(g \in p.mapped /\ p.hw[IndexOf(g)].is_busy)

(* total_score, in hundredths *)
total_score(p, g) ==
    100 * (p.pueue.stats[g].running + p.pueue.stats[g].queued)
    + (IF g \in p.mapped THEN p.hw[IndexOf(g)].percent ELSE 0)

(* available_groups as the loop over pueue_utilization.keys() builds it *)
available_groups(p) == SelectSeq(p.pueue.order, LAMBDA g : is_candidate(p, g))

(* list.sort(key=lambda x: x[1]): ascending and stable *)
RECURSIVE sort_by_score(_, _)
sort_by_score(p, l) ==
    IF l = <<>> THEN <<>>
    ELSE LET s == sort_by_score(p, SubSeq(l, 1, Len(l) - 1))
             x == l[Len(l)]
             k == Cardinality({i \in 1..Len(s) : total_score(p, s[i]) <= total_score(p, x)})
         IN SubSeq(s, 1, k) \o <<x>> \o SubSeq(s, k + 1, Len(s))

optimal_group(p) ==
    IF available_groups(p) = <<>> THEN NoGroup
    ELSE sort_by_score(p, available_groups(p))[1]

InitGm ==
    /\ CoreIdle
    /\ wf = NoWf /\ reg = NoReg /\ flow = NoFlow /\ rp = NoRp /\ qc = NoQc
    /\ \E pu \in PueueAnswers, hw \in HardwareAnswers, db \in DbAnswers, m \in SUBSET Groups :
          gm = [pc |-> "called", p |-> [pueue |-> pu, hw |-> hw, db |-> db, mapped |-> m],
                raised |-> FALSE, result |-> NoGroup]

(* one call: a probe raises and the except branch returns None, or the     *)
(* probes answer and the best candidate is returned                        *)
GmAssign ==
    /\ gm.pc = "called"
    /\ \/ gm' = [gm EXCEPT !.pc = "returned", !.raised = TRUE]
       \/ gm' = [gm EXCEPT !.pc = "returned", !.result = optimal_group(gm.p)]
    /\ UNCHANGED <<core, wf, reg, flow, rp, qc>>

NextGm == GmAssign

SpecGm == InitGm /\ [][NextGm]_vars

(* C34: with the probes answered, the call returns None when no group is   *)
(* at once 'available', without running task and without busy mapped       *)
(* index; otherwise it returns one of exactly those groups that has the    *)
(* lowest score, and of the groups with the lowest score the one whose     *)
(* name comes first.                                                       *)
C34_OptimalGroup ==
    (gm.pc = "returned" /\ ~gm.raised) =>
        LET ok == {g \in Groups : is_candidate(gm.p, g)}
            best == {g \in ok : \A h \in ok : total_score(gm.p, g) <= total_score(gm.p, h)}
        IN IF ok = {} THEN gm.result = NoGroup
           ELSE /\ gm.result \in best
                /\ \A h \in best : IndexOf(gm.result) <= IndexOf(h)

----------------------------------------------------------------------------
(* QueryCache and the methods of DatabaseManager that use it for the row   *)
(* of a case: get_case_by_id in reader threads, update_case_status (and    *)
(* the other update_case_* methods, which have the same shape) in a writer *)
(* thread.  A row is represented by its version, the number of updates it  *)
(* has received.                                                           *)

NumReaders == 2         \* threads calling get_case_by_id
MaxUpdates == 2         \* updates of one case

Readers == 1..NumReaders
Missing == -1           \* QueryCache.get returns None

(* the OrderedDict: the entries from the oldest to the most recently used; *)
(* the key "case_by_id_<c>" is represented by c                            *)
PositionOf(cache, key) == {i \in 1..Len(cache) : cache[i].key = key}

without(cache, key) == SelectSeq(cache, LAMBDA e : e.key # key)

(* QueryCache.get: the value, and the dict after the call (an entry past   *)
(* its ttl is removed, an entry that is served moves to the end)           *)
get(cache, key, expired) ==
    IF PositionOf(cache, key) = {} THEN [value |-> Missing, cache |-> cache]
    ELSE IF expired THEN [value |-> Missing, cache |-> without(cache, key)]
    ELSE LET e == cache[CHOOSE i \in PositionOf(cache, key) : TRUE]
         IN [value |-> e.value, cache |-> Append(without(cache, key), e)]

(* while len(self._cache) > self.max_size: pop the oldest *)
RECURSIVE evict(_, _)
evict(cache, max_size) ==
    IF Len(cache) > max_size THEN evict(Tail(cache), max_size) ELSE cache

(* QueryCache.put *)
put(cache, key, value, max_size) ==
    evict(Append(without(cache, key), [key |-> key, value |-> value]), max_size)

(* QueryCache.invalidate(f"case_by_id_{case_id}"): the keys that contain   *)
(* the pattern; among the keys of the cases of the model only the key      *)
(* itself                                                                  *)
invalidate(cache, key) == without(cache, key)

IdleReader == [pc |-> "idle", key |-> NoCase, value |-> Missing, after |-> 0]

InitQc ==
    /\ CoreIdle
    /\ wf = NoWf /\ reg = NoReg /\ flow = NoFlow /\ rp = NoRp /\ gm = NoGm
    /\ \E max_size \in 1..NumCases :
          qc = [pc |-> "on", max_size |-> max_size, cache |-> <<>>,
                row |-> [c \in Cases |-> 0],            \* the rows of the table
                returned |-> [c \in Cases |-> 0],       \* version written by the last update that has returned
                writer |-> [pc |-> "idle", key |-> NoCase],
                reader |-> [t \in Readers |-> IdleReader],
                last |-> [value |-> 0, after |-> 0]]    \* the last answer of get_case_by_id

(* get_case_by_id, _execute_with_metrics up to the answer of the cache: a  *)
(* hit is returned at once                                                 *)
QcLookup(t, c) ==
    /\ qc.reader[t].pc = "idle"
    /\ \E expired \in BOOLEAN :
          LET r == get(qc.cache, c, expired)
          IN IF r.value # Missing
             THEN qc' = [qc EXCEPT !.cache = r.cache,
                                   !.last = [value |-> r.value, after |-> qc.returned[c]]]
             ELSE qc' = [qc EXCEPT !.cache = r.cache,
                                   !.reader[t] = [pc |-> "query", key |-> c, value |-> Missing,
                                                  after |-> qc.returned[c]]]
    /\ UNCHANGED <<core, wf, reg, flow, rp, gm>>

(* with self._lock: cursor.execute(query); results = cursor.fetchall() *)
QcQuery(t) ==
    /\ qc.reader[t].pc = "query"
    /\ qc' = [qc EXCEPT !.reader[t].pc = "put", !.reader[t].value = qc.row[qc.reader[t].key]]
    /\ UNCHANGED <<core, wf, reg, flow, rp, gm>>

(* self.query_cache.put(cache_key, cached_results); return results *)
QcPut(t) ==
    /\ qc.reader[t].pc = "put"
    /\ qc' = [qc EXCEPT !.cache = put(qc.cache, qc.reader[t].key, qc.reader[t].value, qc.max_size),
                        !.last = [value |-> qc.reader[t].value, after |-> qc.reader[t].after],
                        !.reader[t] = IdleReader]
    /\ UNCHANGED <<core, wf, reg, flow, rp, gm>>

(* update_case_status: with self.transaction(): UPDATE cases ... *)
QcUpdate(c) ==
    /\ qc.writer.pc = "idle"
    /\ qc.row[c] < MaxUpdates
    /\ qc' = [qc EXCEPT !.row[c] = @ + 1, !.writer = [pc |-> "committed", key |-> c]]
    /\ UNCHANGED <<core, wf, reg, flow, rp, gm>>

(* self.query_cache.invalidate(f"case_by_id_{case_id}"); return *)
QcInvalidate ==
    /\ qc.writer.pc = "committed"
    /\ qc' = [qc EXCEPT !.cache = invalidate(qc.cache, qc.writer.key),
                        !.returned[qc.writer.key] = qc.row[qc.writer.key],
                        !.writer = [pc |-> "idle", key |-> NoCase]]
    /\ UNCHANGED <<core, wf, reg, flow, rp, gm>>

NextQc ==
    \/ \E t \in Readers, c \in Cases : QcLookup(t, c)
    \/ \E t \in Readers : QcQuery(t) \/ QcPut(t)
    \/ \E c \in Cases : QcUpdate(c)
    \/ QcInvalidate

SpecQc == InitQc /\ [][NextQc]_vars

(* C40: a call of get_case_by_id(c) made after an update of case c has     *)
(* returned answers with the row as that update wrote it, or a later one,  *)
(* whatever calls of get_case_by_id(c) that missed the cache are under way *)
(* in other threads; and the cache never holds more than max_size entries. *)
C40_CacheFresh ==
    qc.pc = "on" =>
        /\ qc.last.value >= qc.last.after
        /\ Len(qc.cache) <= qc.max_size

====
